---- MODULE Spec2Model ----
(***************************************************************************)
(* Model of the inference-merge-validate pipeline of SchemaGeneration:     *)
(* the three inference passes (pipeline/passes), merge_parts               *)
(* (pipeline/run_all.py), resolve_cardinality (merge/rules.py),            *)
(* unify_naming (merge/align.py), validate_mer_basic                       *)
(* (validate/schema_validate.py) and write_mer (pipeline/passes/emit.py),  *)
(* and of the schema projector (projectors/prisma/to_prisma.py) with its   *)
(* callers.                                                                *)
(*                                                                         *)
(* Python values are modelled as follows.  A str that the code inspects    *)
(* character by character (entity, attribute and endpoint names) is a      *)
(* sequence of one-character strings; a str the code only copies (source   *)
(* citations, relationship types, rule kinds) is a TLA+ string.  A dict    *)
(* is a record whose DOMAIN is the set of keys present, so d.get(k, dflt)  *)
(* is Get(d, k, dflt).  A list is a sequence.  A raised exception moves    *)
(* the run to pc = "failed" with err naming the exception.                 *)
(***************************************************************************)
EXTENDS Naturals, Integers, Sequences, FiniteSets, TLC

VARIABLES
    cmd,      \* the entry point: "mer", "validate", "prisma" (sys.argv[1] of
              \* run_all.main), "full_pipeline" (run_full_pipeline),
              \* "to_prisma" (to_prisma.main), "batch" (batch_process.main)
              \* or "full_pipeline.main"
    pc,       \* position of main(): the next stage to run, "done" or "failed"
    ctx,      \* the loaded ContextPack: figma, and the glossary, rules and
              \* enums of its documents section
    heap,     \* the entity dicts created by json.loads, by object identity
    e,        \* result of run_entities   (NotRun before it returns)
    a,        \* result of run_attributes (NotRun before it returns)
    r,        \* result of run_relationships (NotRun before it returns)
    mer,      \* the MER built by merge_parts / read from the MER file
    calls,    \* every run_model call so far, in order: [pass, out], with the
              \* base_mer argument of the pass for the Attributes and the
              \* Relationships pass; for the enrichment, [pass |-> "enhance",
              \* out] with the outcome of the attempt
    err,      \* name of the exception that aborted the run, "" if none
    outFile,  \* the output file of the command: <<>> if never written, else
              \* <<mer>> (mer, full_pipeline) or <<schema>> (prisma, to_prisma)
    use_ai,   \* the use_ai argument of mer_to_prisma
    schema,   \* the text mer_to_prisma returned, as its sequence of lines
    batch,    \* batch_process.main: the loaded configuration, the index of
              \* the project at hand, the counters successful and failed,
              \* the projects process_project was called for, in order, and
              \* the exit status (NotRun for every other entry point)
    fs,       \* full_pipeline.main: the files schema/mer.json (initial_mer)
              \* and schema/mer2.json (refined_mer), each <<>> if absent or
              \* <<content>>, and what the refinement did (NotRun for every
              \* other entry point)
    out_prisma  \* the path the Prisma schema is written to, as the sequence
              \* of its components: sys.argv[3] of `prisma`,
              \* schema/schema.prisma for to_prisma.main (<<>> for the entry
              \* points that write no Prisma schema)

vars ==
    <<cmd, pc, ctx, heap, e, a, r, mer, calls, err, outFile, use_ai, schema, batch, fs,
      out_prisma>>

(***************************************************************************)
(* Bounds of the model.                                                    *)
(***************************************************************************)
MaxNameLen == 3     \* longest raw name drawn in SpecNaming
MaxEntities == 2    \* longest entity list of a pass result drawn in SpecMerge
MaxRules == 2       \* longest document-rule list drawn in SpecRules
MaxFileEntities == 2  \* longest entity list of a MER file drawn in SpecValidate
MaxQuestions == 2   \* longest open-question list of a pass result drawn in SpecQuestions
MaxTypedAttributes == 1  \* longest attribute list of an entity drawn in SpecTypes
MaxRelationships == 2    \* longest relationship list of a MER file drawn in SpecProject
MaxProjects == 2    \* longest project list of a configuration drawn in SpecBatch

(***************************************************************************)
(* dict.get(k, default)                                                    *)
(***************************************************************************)
Get(d, k, dflt) == IF k \in DOMAIN d THEN d[k] ELSE dflt

Max2(x, y) == IF x >= y THEN x ELSE y

(***************************************************************************)
(* Characters.  str.upper / str.lower on one ASCII character and the       *)
(* character class [A-Za-z0-9] of the regular expressions of align.py.     *)
(***************************************************************************)
LowerLetters == <<"a","b","c","d","e","f","g","h","i","j","k","l","m",
                  "n","o","p","q","r","s","t","u","v","w","x","y","z">>
UpperLetters == <<"A","B","C","D","E","F","G","H","I","J","K","L","M",
                  "N","O","P","Q","R","S","T","U","V","W","X","Y","Z">>
DigitChars == {"0","1","2","3","4","5","6","7","8","9"}

Range(s) == {s[i] : i \in DOMAIN s}

IsLower(c) == c \in Range(LowerLetters)
IsUpper(c) == c \in Range(UpperLetters)
IsLetter(c) == IsLower(c) \/ IsUpper(c)
IsAlnum(c) == IsLetter(c) \/ c \in DigitChars

IndexIn(s, c) == CHOOSE i \in DOMAIN s : s[i] = c

Upper(c) == IF IsLower(c) THEN UpperLetters[IndexIn(LowerLetters, c)] ELSE c
Lower(c) == IF IsUpper(c) THEN LowerLetters[IndexIn(UpperLetters, c)] ELSE c

LowerStr(s) == [i \in DOMAIN s |-> Lower(s[i])]

\* str.capitalize(): first character upper-cased, the rest lower-cased
Capitalize(s) == [i \in DOMAIN s |-> IF i = 1 THEN Upper(s[i]) ELSE Lower(s[i])]

(***************************************************************************)
(* merge/align.py                                                          *)
(***************************************************************************)
\* mutant: the first character is not upper-cased
NormalizeEntityNameNoUpper(name) == SelectSeq(name, IsAlnum)

\* re.sub(r'[^A-Za-z0-9]', '', name[:1].upper() + name[1:])
NormalizeEntityName(name) ==
    LET up == IF name = <<>> THEN name ELSE <<Upper(name[1])>> \o Tail(name)
    IN  SelectSeq(up, IsAlnum)

\* re.sub(r'[^A-Za-z0-9]+', ' ', name).strip().split(): the maximal runs of
\* alphanumeric characters of name, in order
RECURSIVE Tokens(_)
Tokens(name) ==
    IF name = <<>> THEN <<>>
    ELSE IF ~IsAlnum(Head(name)) THEN Tokens(Tail(name))
    ELSE LET n == Len(name)
             k == IF \A i \in 1..n : IsAlnum(name[i]) THEN n
                  ELSE (CHOOSE i \in 1..n :
                            /\ ~IsAlnum(name[i])
                            /\ \A j \in 1..(i-1) : IsAlnum(name[j])) - 1
         IN  <<SubSeq(name, 1, k)>> \o Tokens(SubSeq(name, k+1, n))

RECURSIVE JoinCapitalized(_)
JoinCapitalized(parts) ==
    IF parts = <<>> THEN <<>>
    ELSE Capitalize(Head(parts)) \o JoinCapitalized(Tail(parts))

\* normalize_attr_name raises IndexError at parts[0] when the non-empty name
\* holds no alphanumeric character
NormalizeAttrNameRaises(name) == name # <<>> /\ Tokens(name) = <<>>

\* mutant: the first token keeps its case
NormalizeAttrNameFirstKept(name) ==
    IF name = <<>> THEN name
    ELSE LET parts == Tokens(name)
         IN  parts[1] \o JoinCapitalized(Tail(parts))

NormalizeAttrName(name) ==
    IF name = <<>> THEN name
    ELSE LET parts == Tokens(name)
         IN  LowerStr(parts[1]) \o JoinCapitalized(Tail(parts))

\* the glossary entries g, in order, with name == g.term or name in g.aliases
AliasMatches(name, glossary) ==
    {i \in DOMAIN glossary :
        name = glossary[i].term \/ name \in Range(glossary[i].aliases)}

ApplyAliases(name, glossary) ==
    LET hits == AliasMatches(name, glossary)
    IN  IF hits = {} THEN name
        ELSE glossary[CHOOSE i \in hits : \A j \in hits : i <= j].term

CanonicalEntityName(name, glossary) ==
    NormalizeEntityName(ApplyAliases(name, glossary))

UnifyAttribute(at) == [at EXCEPT !.name = NormalizeAttrName(at.name)]

UnifyEntity(en, glossary) ==
    LET named == [en EXCEPT !.name = CanonicalEntityName(en.name, glossary)]
    IN  IF "attributes" \in DOMAIN en
        THEN [named EXCEPT !.attributes =
                 [i \in DOMAIN en.attributes |-> UnifyAttribute(en.attributes[i])]]
        ELSE named

\* `if "fk" in r and r["fk"].get("attribute")`
HasFkAttribute(rel) ==
    /\ "fk" \in DOMAIN rel
    /\ "attribute" \in DOMAIN rel.fk
    /\ rel.fk.attribute # <<>>

\* mutant: the endpoints are normalized without the glossary
UnifyRelationshipNoAliases(rel, glossary) ==
    LET ends == [rel EXCEPT !.from = NormalizeEntityName(rel.from),
                            !.to = NormalizeEntityName(rel.to)]
    IN  IF HasFkAttribute(rel)
        THEN [ends EXCEPT !.fk.attribute = NormalizeAttrName(rel.fk.attribute)]
        ELSE ends

UnifyRelationship(rel, glossary) ==
    LET ends == [rel EXCEPT !.from = CanonicalEntityName(rel.from, glossary),
                            !.to = CanonicalEntityName(rel.to, glossary)]
    IN  IF HasFkAttribute(rel)
        THEN [ends EXCEPT !.fk.attribute = NormalizeAttrName(rel.fk.attribute)]
        ELSE ends

UnifyNamingRaises(m) ==
    \/ \E i \in DOMAIN m.entities :
          \E j \in DOMAIN Get(m.entities[i], "attributes", <<>>) :
              NormalizeAttrNameRaises(m.entities[i].attributes[j].name)
    \/ \E i \in DOMAIN m.relationships :
          /\ HasFkAttribute(m.relationships[i])
          /\ NormalizeAttrNameRaises(m.relationships[i].fk.attribute)

UnifyNaming(m, glossary) ==
    [m EXCEPT
        !.entities = [i \in DOMAIN m.entities |-> UnifyEntity(m.entities[i], glossary)],
        !.relationships = [i \in DOMAIN m.relationships |->
                              UnifyRelationship(m.relationships[i], glossary)]]

\* unify_naming renames in place, so an IndexError leaves the MER renamed
\* up to the raising name: entities in order (name, then attributes in
\* order), then relationships in order (from, to, then fk attribute)
Least(S) == CHOOSE i \in S : \A j \in S : i <= j

RaisingAttributes(en) ==
    {j \in DOMAIN Get(en, "attributes", <<>>) :
        NormalizeAttrNameRaises(en.attributes[j].name)}

UnifyEntityAborted(en, glossary) ==
    LET stop == Least(RaisingAttributes(en))
    IN  [en EXCEPT !.name = CanonicalEntityName(en.name, glossary),
                   !.attributes = [j \in DOMAIN en.attributes |->
                                      IF j < stop THEN UnifyAttribute(en.attributes[j])
                                      ELSE en.attributes[j]]]

UnifyRelationshipAborted(rel, glossary) ==
    [rel EXCEPT !.from = CanonicalEntityName(rel.from, glossary),
                !.to = CanonicalEntityName(rel.to, glossary)]

UnifyNamingAborted(m, glossary) ==
    LET badEntities == {i \in DOMAIN m.entities : RaisingAttributes(m.entities[i]) # {}}
        badRels == {i \in DOMAIN m.relationships :
                       /\ HasFkAttribute(m.relationships[i])
                       /\ NormalizeAttrNameRaises(m.relationships[i].fk.attribute)}
    IN  IF badEntities # {}
        THEN [m EXCEPT !.entities = [i \in DOMAIN m.entities |->
                 IF i < Least(badEntities) THEN UnifyEntity(m.entities[i], glossary)
                 ELSE IF i = Least(badEntities)
                      THEN UnifyEntityAborted(m.entities[i], glossary)
                 ELSE m.entities[i]]]
        ELSE [m EXCEPT
                 !.entities = [i \in DOMAIN m.entities |->
                                  UnifyEntity(m.entities[i], glossary)],
                 !.relationships = [i \in DOMAIN m.relationships |->
                     IF i < Least(badRels)
                     THEN UnifyRelationship(m.relationships[i], glossary)
                     ELSE IF i = Least(badRels)
                          THEN UnifyRelationshipAborted(m.relationships[i], glossary)
                     ELSE m.relationships[i]]]

(***************************************************************************)
(* merge/rules.py                                                          *)
(***************************************************************************)
\* d[k] = v on a dict
Put(d, k, v) == [x \in (DOMAIN d) \cup {k} |-> IF x = k THEN v ELSE d[x]]

\* what dict.get returns for a missing name-valued key (None)
NoneName == <<"None">>
NoneType == "None"

RuleMatches(rule, rel) ==
    /\ Get(rule, "kind", NoneType) = "cardinality"
    /\ Get(rule, "from", NoneName) = Get(rel, "from", NoneName)
    /\ Get(rule, "to", NoneName) = Get(rel, "to", NoneName)

\* the body of the loop of resolve_cardinality for one matching rule
ApplyRule(rel, rule) ==
    LET typed == Put(rel, "type", Get(rule, "type", Get(rel, "type", NoneType)))
    IN  Put(typed, "sources", Get(rel, "sources", <<>>) \o Get(rule, "sources", <<>>))

\* mutant: the loop stops at the first matching rule
RECURSIVE ResolveCardinalityFirstMatch(_, _)
ResolveCardinalityFirstMatch(rel, doc_rules) ==
    IF doc_rules = <<>> THEN rel
    ELSE IF RuleMatches(Head(doc_rules), rel) THEN ApplyRule(rel, Head(doc_rules))
    ELSE ResolveCardinalityFirstMatch(rel, Tail(doc_rules))

RECURSIVE ResolveCardinality(_, _)
ResolveCardinality(rel, doc_rules) ==
    IF doc_rules = <<>> THEN rel
    ELSE LET rule == Head(doc_rules)
             next == IF RuleMatches(rule, rel) THEN ApplyRule(rel, rule) ELSE rel
         IN  ResolveCardinality(next, Tail(doc_rules))

(***************************************************************************)
(* pipeline/run_all.py: merge_parts.  A pass result holds its entities as  *)
(* references into heap, because the fallback of run_attributes returns    *)
(* the entity dicts of the Entities pass themselves and merge_parts        *)
(* mutates entity dicts in place.                                          *)
(***************************************************************************)
\* entities_by_name: an insertion-ordered dict, as a sequence of [name, ref]
DictHas(d, name) == \E i \in DOMAIN d : d[i].name = name
DictRef(d, name) == d[CHOOSE i \in DOMAIN d : d[i].name = name].ref
DictSet(d, name, ref) ==
    IF DictHas(d, name)
    THEN [i \in DOMAIN d |-> IF d[i].name = name THEN [name |-> name, ref |-> ref] ELSE d[i]]
    ELSE Append(d, [name |-> name, ref |-> ref])

\* {x["name"]: x for x in e.get("entities", [])}
RECURSIVE EntitiesByName(_, _, _)
EntitiesByName(d, refs, h) ==
    IF refs = <<>> THEN d
    ELSE EntitiesByName(DictSet(d, h[Head(refs)].name, Head(refs)), Tail(refs), h)

\* the three assignments to base of the matching-name branch
MergeEntity(base, ea) ==
    LET attrs == Put(base, "attributes",
                     Get(ea, "attributes", Get(base, "attributes", <<>>)))
        srcs == Put(attrs, "sources",
                    Get(attrs, "sources", <<>>) \o Get(ea, "sources", <<>>))
    IN  Put(srcs, "confidence",
            Max2(Get(base, "confidence", 0), Get(ea, "confidence", 0)))

\* mutant: an entity the Entities pass did not return is skipped
MergeOneKnownOnly(st, x) ==
    LET name == st.h[x].name
    IN  IF DictHas(st.d, name)
        THEN LET base == DictRef(st.d, name)
             IN  [st EXCEPT !.h[base] = MergeEntity(st.h[base], st.h[x])]
        ELSE st

\* the body of the loop over the Attributes pass's entities, for the entity
\* dict x; st = [d |-> entities_by_name, h |-> heap]
MergeOne(st, x) ==
    LET name == st.h[x].name
    IN  IF DictHas(st.d, name)
        THEN LET base == DictRef(st.d, name)
             IN  [st EXCEPT !.h[base] = MergeEntity(st.h[base], st.h[x])]
        ELSE [st EXCEPT !.d = DictSet(st.d, name, x)]

RECURSIVE MergeAttributeEntities(_, _)
MergeAttributeEntities(st, refs) ==
    IF refs = <<>> THEN st
    ELSE MergeAttributeEntities(MergeOne(st, Head(refs)), Tail(refs))

MergedState(eRes, aRes, h) ==
    MergeAttributeEntities(
        [d |-> EntitiesByName(<<>>, Get(eRes, "entities", <<>>), h), h |-> h],
        Get(aRes, "entities", <<>>))

\* mutant: the open questions of the Attributes pass come first
MergePartsAttributesFirst(eRes, aRes, rRes, c, h) ==
    LET st == MergedState(eRes, aRes, h)
        rels == Get(rRes, "relationships", <<>>)
    IN  [entities |-> [i \in DOMAIN st.d |-> st.h[st.d[i].ref]],
         relationships |-> [i \in DOMAIN rels |-> ResolveCardinality(rels[i], c.rules)],
         enums |-> c.enums,
         meta |-> [generation_time |-> NoneType,
                   open_questions |->
                      Get(aRes, "open_questions", <<>>)
                      \o Get(eRes, "open_questions", <<>>)
                      \o Get(rRes, "open_questions", <<>>)]]

MergeParts(eRes, aRes, rRes, c, h) ==
    LET st == MergedState(eRes, aRes, h)
        rels == Get(rRes, "relationships", <<>>)
    IN  [entities |-> [i \in DOMAIN st.d |-> st.h[st.d[i].ref]],
         relationships |-> [i \in DOMAIN rels |-> ResolveCardinality(rels[i], c.rules)],
         enums |-> c.enums,
         meta |-> [generation_time |-> NoneType,
                   open_questions |->
                      Get(eRes, "open_questions", <<>>)
                      \o Get(aRes, "open_questions", <<>>)
                      \o Get(rRes, "open_questions", <<>>)]]

\* merge_parts and unify_naming rewrite the relationship dicts of the
\* Relationships pass result in place: afterwards rRes holds the
\* relationships of the MER m
RelationshipsRewritten(rRes, m) ==
    IF "relationships" \in DOMAIN rRes
    THEN [rRes EXCEPT !.relationships = m.relationships]
    ELSE rRes

\* the entity dicts of the merged MER, as references, in its order
MerRefs(eRes, aRes, h) ==
    LET d == MergedState(eRes, aRes, h).d
    IN  [i \in DOMAIN d |-> d[i].ref]

\* `base["attributes"] = ea.get("attributes", ...)` makes base hold the
\* attribute list object of ea: al[b] = x says that the entity dict b holds
\* the attribute list created for the entity dict x
RECURSIVE AttributeLists(_, _, _, _)
AttributeLists(al, d, refs, h) ==
    IF refs = <<>> THEN al
    ELSE LET x == Head(refs)
             name == h[x].name
         IN  IF DictHas(d, name)
             THEN LET base == DictRef(d, name)
                  IN  AttributeLists(
                          IF "attributes" \in DOMAIN h[x]
                          THEN [al EXCEPT ![base] = al[x]] ELSE al,
                          d, Tail(refs), h)
             ELSE AttributeLists(al, DictSet(d, name, x), Tail(refs), h)

\* the heap after unify_naming turned the merged MER into m: the entity
\* dicts of the MER are renamed in place, and an entity dict of the
\* Attributes pass whose attribute list a MER entity holds sees its
\* attributes renamed
UnifiedHeap(m, eRes, aRes, h) ==
    LET refs == MerRefs(eRes, aRes, h)
        al == AttributeLists([x \in DOMAIN h |-> x],
                             EntitiesByName(<<>>, Get(eRes, "entities", <<>>), h),
                             Get(aRes, "entities", <<>>), h)
    IN  [x \in DOMAIN h |->
            IF \E i \in DOMAIN refs : refs[i] = x
            THEN m.entities[CHOOSE i \in DOMAIN refs : refs[i] = x]
            ELSE IF /\ "attributes" \in DOMAIN h[x]
                    /\ \E i \in DOMAIN refs : al[refs[i]] = x
            THEN [h[x] EXCEPT !.attributes =
                     m.entities[CHOOSE i \in DOMAIN refs : al[refs[i]] = x].attributes]
            ELSE h[x]]

(***************************************************************************)
(* validate/schema_validate.py                                             *)
(***************************************************************************)
\* isinstance(mer, dict); isinstance(mer[k], list).  A MER read from a file
\* records a JSON value of another type by the keys notdict / nonlist.
IsDict(m) == "notdict" \notin DOMAIN m
IsListField(m, k) == k \in DOMAIN m /\ k \notin Get(m, "nonlist", {})

\* mutant: all(...) instead of any(...)
HasPkAll(en) ==
    \A j \in DOMAIN Get(en, "attributes", <<>>) : Get(en.attributes[j], "pk", FALSE)

\* any(a.get("pk") for a in e.get("attributes", []))
HasPk(en) ==
    \E j \in DOMAIN Get(en, "attributes", <<>>) : Get(en.attributes[j], "pk", FALSE)

\* mutant: the primary keys are not checked
ValidateMerBasicShapeOnly(m) ==
    /\ IsDict(m)
    /\ IsListField(m, "entities")
    /\ IsListField(m, "relationships")

\* TRUE iff validate_mer_basic returns without raising AssertionError
ValidateMerBasic(m) ==
    /\ IsDict(m)
    /\ IsListField(m, "entities")
    /\ IsListField(m, "relationships")
    /\ \A i \in DOMAIN m.entities : HasPk(m.entities[i])

(***************************************************************************)
(* The completion capability (llm/openai_client.py: run_model) is opaque:  *)
(* each call returns one of                                                *)
(*   [kind |-> "empty"]    the empty string                                *)
(*   [kind |-> "blank"]    a whitespace-only string                        *)
(*   [kind |-> "garbage", msg |-> m]  a non-empty text json.loads rejects  *)
(*                         with a json.JSONDecodeError whose str() is m    *)
(*   [kind |-> "json", body |-> b]  the JSON text of the dict b            *)
(***************************************************************************)
EmptyOut == [kind |-> "empty"]
BlankOut == [kind |-> "blank"]
\* the completion 'not json'
GarbageOut == [kind |-> "garbage", msg |-> "Expecting value: line 1 column 1 (char 0)"]
\* the completion '{'
TruncatedOut ==
    [kind |-> "garbage",
     msg |-> "Expecting property name enclosed in double quotes: line 1 column 2 (char 1)"]
JsonOut(b) == [kind |-> "json", body |-> b]

\* `not out or out.strip() == ""`
IsEmptyOut(out) == out.kind \in {"empty", "blank"}

\* json.loads(out) returns (TRUE) or raises json.JSONDecodeError (FALSE)
JsonLoads(out) == out.kind = "json"

\* json.loads creates fresh entity dicts: the parsed body with its entities
\* replaced by their references, and the heap holding them
ParsedResult(body, h) ==
    IF "entities" \in DOMAIN body
    THEN [body EXCEPT !.entities = [i \in DOMAIN body.entities |-> Len(h) + i]]
    ELSE body

ParsedHeap(body, h) == h \o Get(body, "entities", <<>>)

\* mutant: the fallback carries no entity and cites no source
AttributesFallbackBare(base_mer, question, source) ==
    [entities |-> <<>>,
     open_questions |-> <<[question |-> question, sources |-> <<>>]>>]

\* the two fallback returns of run_attributes: the entity list object of
\* base_mer itself and one open question
AttributesFallback(base_mer, question, source) ==
    [entities |-> Get(base_mer, "entities", <<>>),
     open_questions |-> <<[question |-> question, sources |-> <<source>>]>>]

\* the question of the fallback after two empty completions (line 35)
EmptyResponseQuestion ==
    "LLM returned empty response for attributes. Please review and add attributes manually."

\* the question of the fallback after the completion out, which json.loads
\* rejected: an f-string around the JSONDecodeError (line 54)
ParsingFailedQuestion(out) ==
    "LLM response parsing failed: " \o out.msg
        \o ". Please review and add attributes manually."

NotRun == [notrun |-> TRUE]

(***************************************************************************)
(* Stages of main() for `mer` (run_all.py lines 76-87) and `validate`      *)
(* (lines 103-111).                                                        *)
(***************************************************************************)
Fail(name) == pc' = "failed" /\ err' = name

\* the callers of the stage sequence: main() for `mer`,
\* generate_from_figma.run_full_pipeline, and batch_process.process_project,
\* which calls run_full_pipeline
PipelineCmds == {"mer", "full_pipeline", "batch"}

\* e = run_entities(ctx, run_model)
RunEntities(Outputs) ==
    /\ cmd \in PipelineCmds /\ pc = "entities"
    /\ \E out \in Outputs :
          /\ calls' = Append(calls, [pass |-> "entities", out |-> out])
          /\ IF JsonLoads(out)
             THEN /\ e' = ParsedResult(out.body, heap)
                  /\ heap' = ParsedHeap(out.body, heap)
                  /\ pc' = "attributes"
                  /\ err' = err
             ELSE /\ Fail("JSONDecodeError")
                  /\ UNCHANGED <<e, heap>>
    /\ UNCHANGED <<out_prisma, batch, fs, use_ai, schema, cmd, ctx, a, r, mer, outFile>>

\* a = run_attributes(ctx, e, run_model)
RunAttributes(Outputs) ==
    /\ cmd \in PipelineCmds /\ pc = "attributes"
    /\ \E first \in Outputs :
       \E second \in (IF IsEmptyOut(first) THEN Outputs ELSE {first}) :
          LET made == IF IsEmptyOut(first) THEN <<first, second>> ELSE <<first>>
              out == made[Len(made)]
          IN  /\ calls' = calls \o [i \in DOMAIN made |->
                                       [pass |-> "attributes", out |-> made[i],
                                        base_mer |-> e]]
              /\ IF IsEmptyOut(out)
                 THEN /\ a' = AttributesFallback(e, EmptyResponseQuestion,
                                 "system:llm_error")
                      /\ heap' = heap
                 ELSE IF JsonLoads(out)
                 THEN /\ a' = ParsedResult(out.body, heap)
                      /\ heap' = ParsedHeap(out.body, heap)
                 ELSE /\ a' = AttributesFallback(e, ParsingFailedQuestion(out),
                                 "system:json_error")
                      /\ heap' = heap
    /\ pc' = "relationships"
    /\ UNCHANGED <<out_prisma, batch, fs, use_ai, schema, cmd, ctx, e, r, mer, err, outFile>>

\* mutant: the Relationships pass is handed the Entities pass result
RunRelationshipsOnEntities(Outputs) ==
    /\ cmd \in PipelineCmds /\ pc = "relationships"
    /\ \E out \in Outputs :
          /\ calls' = Append(calls, [pass |-> "relationships", out |-> out,
                                      base_mer |-> e])
          /\ IF JsonLoads(out)
             THEN /\ r' = ParsedResult(out.body, heap)
                  /\ heap' = ParsedHeap(out.body, heap)
                  /\ pc' = "merge"
                  /\ err' = err
             ELSE /\ Fail("JSONDecodeError")
                  /\ UNCHANGED <<r, heap>>
    /\ UNCHANGED <<out_prisma, batch, fs, use_ai, schema, cmd, ctx, e, a, mer, outFile>>

\* r = run_relationships(ctx, a, run_model)
RunRelationships(Outputs) ==
    /\ cmd \in PipelineCmds /\ pc = "relationships"
    /\ \E out \in Outputs :
          /\ calls' = Append(calls, [pass |-> "relationships", out |-> out,
                                      base_mer |-> a])
          /\ IF JsonLoads(out)
             THEN /\ r' = ParsedResult(out.body, heap)
                  /\ heap' = ParsedHeap(out.body, heap)
                  /\ pc' = "merge"
                  /\ err' = err
             ELSE /\ Fail("JSONDecodeError")
                  /\ UNCHANGED <<r, heap>>
    /\ UNCHANGED <<out_prisma, batch, fs, use_ai, schema, cmd, ctx, e, a, mer, outFile>>

\* mutant: resolve_cardinality extends the sources list of the matching rule
\* with the sources of the relationship
MergeStepRuleSourcesExtended ==
    /\ cmd \in PipelineCmds /\ pc = "merge"
    /\ mer' = MergeParts(e, a, r, ctx, heap)
    /\ heap' = MergedState(e, a, heap).h
    /\ ctx' = [ctx EXCEPT !.rules = [i \in DOMAIN ctx.rules |->
                  LET rels == Get(r, "relationships", <<>>)
                      hits == SelectSeq(rels, LAMBDA rel : RuleMatches(ctx.rules[i], rel))
                  IN  IF hits = <<>> THEN ctx.rules[i]
                      ELSE Put(ctx.rules[i], "sources",
                               Get(ctx.rules[i], "sources", <<>>)
                               \o Get(hits[1], "sources", <<>>))]]
    /\ r' = RelationshipsRewritten(r, mer')
    /\ pc' = "unify"
    /\ UNCHANGED <<out_prisma, batch, fs, use_ai, schema, cmd, e, a, calls, err, outFile>>

\* mer = merge_parts(e, a, r, ctx); the entity dicts and the relationship
\* dicts of the pass results are rewritten in place
MergeStep ==
    /\ cmd \in PipelineCmds /\ pc = "merge"
    /\ mer' = MergeParts(e, a, r, ctx, heap)
    /\ heap' = MergedState(e, a, heap).h
    /\ r' = RelationshipsRewritten(r, mer')
    /\ pc' = "unify"
    /\ UNCHANGED <<out_prisma, batch, fs, use_ai, schema, cmd, ctx, e, a, calls, err, outFile>>

\* mer = unify_naming(mer, glossary); an IndexError of normalize_attr_name
\* aborts the run and leaves the MER half renamed.  The renaming is done in
\* place, on the dicts the MER shares with the pass results
UnifyStep ==
    /\ cmd \in PipelineCmds /\ pc = "unify"
    /\ IF UnifyNamingRaises(mer)
       THEN Fail("IndexError") /\ mer' = UnifyNamingAborted(mer, ctx.glossary)
       ELSE /\ mer' = UnifyNaming(mer, ctx.glossary)
            /\ pc' = "validate"
            /\ err' = err
    /\ heap' = UnifiedHeap(mer', e, a, heap)
    /\ r' = RelationshipsRewritten(r, mer')
    /\ UNCHANGED <<out_prisma, batch, fs, use_ai, schema, cmd, ctx, e, a, calls, outFile>>

\* validate_mer_basic(mer), in `mer` and in `validate`
ValidateStep ==
    /\ pc = "validate"
    /\ IF ValidateMerBasic(mer)
       THEN pc' = (IF cmd \in PipelineCmds THEN "write" ELSE "done") /\ err' = err
       ELSE Fail("AssertionError")
    /\ UNCHANGED <<out_prisma, batch, fs, use_ai, schema, cmd, ctx, heap, e, a, r, mer, calls, outFile>>

\* write_mer(mer, out_mer)
WriteStep ==
    /\ cmd \in PipelineCmds /\ pc = "write"
    /\ outFile' = <<mer>>
    /\ pc' = "done"
    /\ UNCHANGED <<out_prisma, batch, fs, use_ai, schema, cmd, ctx, heap, e, a, r, mer, calls, err>>

\* the state of `mer <context-pack> <out>` after load_context
InitMer(Contexts) ==
    /\ cmd = "mer"
    /\ pc = "entities"
    /\ ctx \in Contexts
    /\ heap = <<>>
    /\ e = NotRun /\ a = NotRun /\ r = NotRun /\ mer = NotRun
    /\ calls = <<>>
    /\ err = ""
    /\ outFile = <<>>
    /\ use_ai = FALSE /\ schema = <<>>
    /\ batch = NotRun /\ fs = NotRun
    /\ out_prisma = <<>>

\* the state of run_full_pipeline(context_pack_path, mer_output_path) after
\* load_context
InitFullPipeline(Contexts) ==
    /\ cmd = "full_pipeline"
    /\ pc = "entities"
    /\ ctx \in Contexts
    /\ heap = <<>>
    /\ e = NotRun /\ a = NotRun /\ r = NotRun /\ mer = NotRun
    /\ calls = <<>>
    /\ err = ""
    /\ outFile = <<>>
    /\ use_ai = FALSE /\ schema = <<>>
    /\ batch = NotRun /\ fs = NotRun
    /\ out_prisma = <<>>

\* the state of `validate <in-mer>` after json.load
InitValidate(MerFiles) ==
    /\ cmd = "validate"
    /\ pc = "validate"
    /\ ctx = NotRun
    /\ heap = <<>>
    /\ e = NotRun /\ a = NotRun /\ r = NotRun
    /\ mer \in MerFiles
    /\ calls = <<>>
    /\ err = ""
    /\ outFile = <<>>
    /\ use_ai = FALSE /\ schema = <<>>
    /\ batch = NotRun /\ fs = NotRun
    /\ out_prisma = <<>>

(***************************************************************************)
(* Inputs.  Names used by the pools below; a confidence is written in      *)
(* tenths (0.9 is 9).                                                      *)
(***************************************************************************)
SeqsUpTo(S, n) == UNION {[1..k -> S] : k \in 0..n}

user == <<"u","s","e","r">>
User == <<"U","s","e","r">>
users == <<"u","s","e","r","s">>
order == <<"o","r","d","e","r">>
Order == <<"O","r","d","e","r">>
item == <<"i","t","e","m">>
id == <<"i","d">>
total == <<"t","o","t","a","l">>
user_id == <<"u","s","e","r","_","i","d">>

IdPk == [name |-> id, type |-> "uuid", pk |-> TRUE]

\* the entity card of the ContextPack; the passes only print it into the prompt
Figma == [entityCards |-> <<[name |-> User, attributes |-> <<[name |-> id]>>,
                             sources |-> <<"figma:n1">>]>>,
          connectors |-> <<>>]

Context(glossary, rules) ==
    [figma |-> Figma, glossary |-> glossary, rules |-> rules,
     enums |-> <<[name |-> "Status", values |-> <<"active", "in-progress">>]>>]

OrderUserRule ==
    [kind |-> "cardinality", from |-> Order, to |-> User,
     type |-> "many-to-one", sources |-> <<"doc:x">>]

UserGlossary == <<[term |-> User, aliases |-> <<users>>]>>

(***************************************************************************)
(* Spec: the `mer` and `validate` commands on a small set of context packs *)
(* and completions, among them the stub of the end-to-end scenario.        *)
(***************************************************************************)
StubBody ==
    [entities |-> <<[name |-> user, attributes |-> <<>>,
                     sources |-> <<"figma:n1">>, confidence |-> 9]>>,
     open_questions |-> <<>>]

UserBody ==
    [entities |-> <<[name |-> User, attributes |-> <<IdPk>>,
                     sources |-> <<"figma:n1">>, confidence |-> 6]>>,
     open_questions |-> <<>>]

TwoUsersBody ==
    [entities |-> <<[name |-> user, attributes |-> <<IdPk>>,
                     sources |-> <<"figma:n1">>, confidence |-> 6],
                    [name |-> User, attributes |-> <<IdPk>>,
                     sources |-> <<"figma:n2">>, confidence |-> 9]>>,
     open_questions |-> <<>>]

OrderUsersBody ==
    [entities |-> <<[name |-> Order, attributes |-> <<IdPk>>,
                     sources |-> <<"figma:n3">>, confidence |-> 6],
                    [name |-> users, attributes |-> <<IdPk>>,
                     sources |-> <<"figma:n1">>, confidence |-> 9]>>,
     open_questions |-> <<[question |-> "Is Order owned by one user?",
                           sources |-> <<"figma:n3">>]>>]

OrderUserRelBody ==
    [relationships |-> <<[from |-> Order, to |-> User, type |-> "one-to-many",
                          fk |-> [attribute |-> user_id, ref |-> "User.id"],
                          sources |-> <<"figma:c1">>, confidence |-> 8]>>,
     open_questions |-> <<>>]

FailingOutputs == {EmptyOut, BlankOut, GarbageOut}

EntitiesOutputs ==
    FailingOutputs \cup {JsonOut(b) : b \in {StubBody, UserBody, TwoUsersBody, OrderUsersBody}}

AttributesOutputs ==
    FailingOutputs \cup {TruncatedOut}
    \cup {JsonOut(b) : b \in {StubBody, UserBody, OrderUsersBody}}

RelationshipsOutputs ==
    FailingOutputs \cup {JsonOut(b) : b \in {StubBody, OrderUserRelBody}}

Contexts ==
    {Context(g, rs) : g \in {<<>>, UserGlossary}, rs \in {<<>>, <<OrderUserRule>>}}

PkEntity == [name |-> User, attributes |-> <<IdPk>>]
NoPkEntity == [name |-> Order, attributes |-> <<[name |-> id, type |-> "uuid"]>>]

MerFiles ==
    {[entities |-> es, relationships |-> <<>>] :
        es \in {<<>>, <<PkEntity>>, <<NoPkEntity>>, <<PkEntity, NoPkEntity>>}}

Init == InitMer(Contexts) \/ InitFullPipeline(Contexts) \/ InitValidate(MerFiles)

Next ==
    \/ RunEntities(EntitiesOutputs)
    \/ RunAttributes(AttributesOutputs)
    \/ RunRelationships(RelationshipsOutputs)
    \/ MergeStep
    \/ UnifyStep
    \/ ValidateStep
    \/ WriteStep

Spec == Init /\ [][Next]_vars

(***************************************************************************)
(* SpecMerge: the `mer` command on every pair of Entities / Attributes     *)
(* pass results of at most MaxEntities entities drawn from the pools       *)
(* below (repeated names, missing keys, entities of one pass only), and    *)
(* on the fallback of the Attributes pass.                                 *)
(***************************************************************************)
MergeEntitiesPool ==
    {[name |-> user, sources |-> <<"figma:n1">>, confidence |-> 6],
     [name |-> user, attributes |-> <<[name |-> total, type |-> "int"]>>,
      sources |-> <<"figma:n2">>, confidence |-> 9],
     [name |-> order, attributes |-> <<>>],
     [name |-> User, attributes |-> <<IdPk>>, sources |-> <<"figma:n3">>, confidence |-> 3]}

MergeAttributesPool ==
    {[name |-> user, attributes |-> <<IdPk>>, sources |-> <<"doc:x">>, confidence |-> 8],
     [name |-> user, sources |-> <<"doc:y">>, confidence |-> 3],
     [name |-> order, attributes |-> <<IdPk, [name |-> total, type |-> "int"]>>,
      confidence |-> 6],
     [name |-> item, attributes |-> <<IdPk>>, sources |-> <<"doc:z">>]}

MergeEntitiesOutputs ==
    {JsonOut([entities |-> es,
              open_questions |-> <<[question |-> "entities?", sources |-> <<"figma:n1">>]>>]) :
        es \in SeqsUpTo(MergeEntitiesPool, MaxEntities)}

MergeAttributesOutputs ==
    {EmptyOut, GarbageOut} \cup
    {JsonOut([entities |-> es, open_questions |-> <<>>]) :
        es \in SeqsUpTo(MergeAttributesPool, MaxEntities)}

MergeRelationshipsOutputs == {JsonOut(OrderUserRelBody)}

InitMerge == InitMer({Context(<<>>, <<OrderUserRule>>)})

NextMerge ==
    \/ RunEntities(MergeEntitiesOutputs)
    \/ RunAttributes(MergeAttributesOutputs)
    \/ RunRelationships(MergeRelationshipsOutputs)
    \/ MergeStep
    \/ UnifyStep
    \/ ValidateStep
    \/ WriteStep

SpecMerge == InitMerge /\ [][NextMerge]_vars

(***************************************************************************)
(* SpecRules: the `mer` command on every list of at most MaxRules document *)
(* rules drawn from RulePool, with a Relationships pass that returns one   *)
(* relationship Order -> User.                                             *)
(***************************************************************************)
RulePool ==
    {[kind |-> "cardinality", from |-> f, to |-> User, type |-> t, sources |-> ss] :
        f \in {Order, order}, t \in {"many-to-one", "one-to-one"},
        ss \in {<<"doc:x">>, <<"doc:y", "doc:z">>}}
    \cup
    {[kind |-> "cardinality", from |-> f, to |-> User, sources |-> ss] :
        f \in {Order, order}, ss \in {<<"doc:x">>, <<"doc:y", "doc:z">>}}
    \cup
    {[kind |-> "business_rule", from |-> Order, to |-> User,
      type |-> "many-to-one", sources |-> <<"doc:x">>],
     [kind |-> "business_rule", description |-> "orders are never deleted",
      sources |-> <<"doc:y", "doc:z">>],
     [kind |-> "cardinality", from |-> Order, to |-> User, type |-> "many-to-many"]}

RulesContexts == {Context(<<>>, rs) : rs \in SeqsUpTo(RulePool, MaxRules)}

RulesRelationshipsOutputs ==
    {JsonOut([relationships |-> <<rel>>, open_questions |-> <<>>]) :
        rel \in {[from |-> Order, to |-> User, type |-> "one-to-many",
                  sources |-> <<"figma:c1">>],
                 [from |-> Order, to |-> User, type |-> "one-to-many"]}}

InitRules == InitMer(RulesContexts)

NextRules ==
    \/ RunEntities({JsonOut(UserBody)})
    \/ RunAttributes({JsonOut(UserBody)})
    \/ RunRelationships(RulesRelationshipsOutputs)
    \/ MergeStep
    \/ UnifyStep
    \/ ValidateStep
    \/ WriteStep

SpecRules == InitRules /\ [][NextRules]_vars

(***************************************************************************)
(* SpecValidate: the `validate` command on MER files of at most            *)
(* MaxFileEntities entities, well-formed or not.                           *)
(***************************************************************************)
FileEntityPool ==
    {[name |-> User, attributes |-> <<IdPk>>],
     [name |-> Order, attributes |-> <<[name |-> id, type |-> "uuid", pk |-> FALSE]>>],
     [name |-> item, attributes |-> <<[name |-> id, type |-> "uuid"]>>],
     [name |-> order, attributes |-> <<[name |-> total, type |-> "int"], IdPk>>],
     [name |-> user, attributes |-> <<>>],
     [name |-> users]}

ValidateFiles ==
    LET lists == SeqsUpTo(FileEntityPool, MaxFileEntities)
    IN  {[entities |-> es, relationships |-> <<>>] : es \in lists}
        \cup {[entities |-> es] : es \in lists}
        \cup {[entities |-> es, relationships |-> <<>>, nonlist |-> {"relationships"}] :
                 es \in lists}
        \cup {[entities |-> <<>>, relationships |-> <<>>, nonlist |-> {"entities"}],
              [relationships |-> <<>>],
              [notdict |-> TRUE]}

InitValidateFiles == InitValidate(ValidateFiles)

NextValidate == ValidateStep

SpecValidate == InitValidateFiles /\ [][NextValidate]_vars

(***************************************************************************)
(* SpecNaming: the `mer` command on one entity whose raw name, and whose   *)
(* attribute's raw name, is any string of at most MaxNameLen characters    *)
(* over NameAlphabet, on every glossary of NamingGlossaries.  The alphabet *)
(* holds lower- and upper-case ASCII letters, a digit and "_", which       *)
(* stands for every character outside [A-Za-z0-9] that str.upper leaves    *)
(* outside it.                                                             *)
(***************************************************************************)
NameAlphabet == {"a", "b", "A", "1", "_"}

RawNames == SeqsUpTo(NameAlphabet, MaxNameLen)

NamingGlossaries ==
    {<<>>,
     <<[term |-> <<"A","b">>, aliases |-> <<<<"a","b">>, <<"b">>>>]>>,
     <<[term |-> <<"a","_","b">>, aliases |-> <<<<"A","b">>>>]>>,
     <<[term |-> <<"A">>, aliases |-> <<<<"b">>>>],
       [term |-> <<"A","1">>, aliases |-> <<<<"b">>, <<"a","1">>>>]>>}

NamingContexts == {Context(g, <<>>) : g \in NamingGlossaries}

NamingEntitiesOutputs ==
    {JsonOut([entities |-> <<[name |-> n,
                              attributes |-> <<[name |-> n, type |-> "uuid", pk |-> TRUE]>>,
                              sources |-> <<"figma:n1">>, confidence |-> 9]>>,
              open_questions |-> <<>>]) : n \in RawNames}

\* the Relationships pass reads the entities of base_mer in its prompt: its
\* relationships connect entities of that list
NamingRelationshipsOutputs ==
    {JsonOut([relationships |-> <<>>, open_questions |-> <<>>])}
    \cup
    {JsonOut([relationships |-> <<[from |-> heap[x].name, to |-> heap[x].name,
                                   type |-> "one-to-many",
                                   fk |-> [attribute |-> heap[x].name, ref |-> "id"]]>>,
              open_questions |-> <<>>]) :
        x \in (IF "entities" \in DOMAIN a THEN Range(a.entities) ELSE {})}

InitNaming == InitMer(NamingContexts)

NextNaming ==
    \/ RunEntities(NamingEntitiesOutputs)
    \/ RunAttributes({GarbageOut})
    \/ RunRelationships(NamingRelationshipsOutputs)
    \/ MergeStep
    \/ UnifyStep
    \/ ValidateStep
    \/ WriteStep

SpecNaming == InitNaming /\ [][NextNaming]_vars

(***************************************************************************)
(* What the passes returned, read off the completions they received.       *)
(***************************************************************************)
CallsOf(p) == SelectSeq(calls, LAMBDA c : c.pass = p)
LastOut(p) == CallsOf(p)[Len(CallsOf(p))].out

\* the entity dicts of the Entities pass result, as returned
EntitiesReturned == Get(LastOut("entities").body, "entities", <<>>)

\* the entity dicts of the Attributes pass result, as returned (the fallback
\* returns those of the Entities pass)
AttributesReturned ==
    IF JsonLoads(LastOut("attributes"))
    THEN Get(LastOut("attributes").body, "entities", <<>>)
    ELSE EntitiesReturned

RelationshipsReturned == Get(LastOut("relationships").body, "relationships", <<>>)

Normalized == cmd = "mer" /\ pc \in {"validate", "write", "done"}

(***************************************************************************)
(* C1.  unify_naming is idempotent: applying it to the MER it returned,    *)
(* with the same glossary, changes no entity name, attribute name,         *)
(* relationship endpoint or fk attribute name.                             *)
(* Stated as claimed; the code violates it (SpecNaming).                   *)
(***************************************************************************)
C1_UnifyNamingIdempotent ==
    Normalized =>
        /\ ~UnifyNamingRaises(mer)
        /\ UnifyNaming(mer, ctx.glossary) = mer

(***************************************************************************)
(* C2.  validate_mer_basic raises for every MER in which some entity has   *)
(* no attribute with pk set, and returns for every MER whose entities and  *)
(* relationships are lists and whose entities all have an attribute with   *)
(* pk set (SpecValidate).                                                  *)
(***************************************************************************)
LacksPk(en) ==
    \A j \in 1..Len(Get(en, "attributes", <<>>)) :
        ~("pk" \in DOMAIN en.attributes[j] /\ en.attributes[j].pk = TRUE)

C2_ValidatorRaisesIffPkMissing ==
    (cmd = "validate" /\ pc # "validate" /\ "entities" \in DOMAIN mer) =>
        /\ (\E i \in DOMAIN mer.entities : LacksPk(mer.entities[i]))
              => (pc = "failed" /\ err = "AssertionError")
        /\ ( /\ IsListField(mer, "entities")
             /\ IsListField(mer, "relationships")
             /\ \A i \in DOMAIN mer.entities : ~LacksPk(mer.entities[i]) )
              => (pc = "done" /\ err = "")

C2_Witness ==
    /\ cmd = "validate" /\ pc = "failed" /\ err = "AssertionError"
    /\ IsListField(mer, "entities") /\ IsListField(mer, "relationships")
    /\ Len(mer.entities) = 2
    /\ ~LacksPk(mer.entities[1])
    /\ LacksPk(mer.entities[2])

(***************************************************************************)
(* C3.  No pass raises on an empty or unparseable completion: after a pass *)
(* whose last completion was empty, blank or not JSON, the run has not     *)
(* been aborted.  Stated as claimed; the code violates it (Spec).          *)
(***************************************************************************)
C3_PassesNeverAbortOnBadCompletion ==
    (cmd = "mer" /\ calls # <<>> /\ ~JsonLoads(calls[Len(calls)].out))
        => pc # "failed"

(***************************************************************************)
(* C4.  The end-to-end scenario: no glossary, no document rules, and the   *)
(* stub completion returned to each of the three passes.                   *)
(***************************************************************************)
StubScenario ==
    /\ cmd = "mer"
    /\ ctx.glossary = <<>> /\ ctx.rules = <<>>
    /\ [i \in DOMAIN calls |-> [pass |-> calls[i].pass, out |-> calls[i].out]]
           = <<[pass |-> "entities", out |-> JsonOut(StubBody)],
               [pass |-> "attributes", out |-> JsonOut(StubBody)],
               [pass |-> "relationships", out |-> JsonOut(StubBody)]>>

\* C4 as claimed: the run ends with one entity User that has a primary-key
\* attribute id, accepted by the validator.  The code violates it.
C4_StubScenarioAccepted ==
    (StubScenario /\ pc \in {"done", "failed"}) =>
        /\ pc = "done"
        /\ Len(mer.entities) = 1
        /\ mer.entities[1].name = User
        /\ \E j \in DOMAIN mer.entities[1].attributes :
              /\ mer.entities[1].attributes[j].name = id
              /\ Get(mer.entities[1].attributes[j], "pk", FALSE)

\* C4 as amended: in the stub scenario the normalized MER has exactly one
\* entity, named User, with the stub's empty attribute list; the validator
\* raises AssertionError on it and the MER is never written.
C4_StubScenarioRejected ==
    (StubScenario /\ pc \notin {"merge", "unify"}) =>
        /\ Len(mer.entities) = 1
        /\ mer.entities[1].name = User
        /\ mer.entities[1].attributes = <<>>
        /\ pc \in {"validate", "failed"}
        /\ pc = "failed" => err = "AssertionError"
        /\ outFile = <<>>

C4_Witness ==
    StubScenario /\ pc = "failed" /\ err = "AssertionError" /\ Len(mer.entities) = 1

(***************************************************************************)
(* C5.  resolve_cardinality: with the rules of kind cardinality whose from *)
(* and to equal those of rel (Matching, in list order), the resolved       *)
(* relationship has the type of the last matching rule and the sources of  *)
(* rel followed by the sources of every matching rule in order; without a  *)
(* matching rule rel is unchanged, whatever rules of other kinds say       *)
(* (SpecRules; read before unify_naming renames the endpoints).            *)
(***************************************************************************)
Rel0 == RelationshipsReturned[1]

Matching ==
    SelectSeq(ctx.rules,
              LAMBDA rule : /\ "kind" \in DOMAIN rule /\ rule.kind = "cardinality"
                            /\ "from" \in DOMAIN rule /\ rule.from = Rel0.from
                            /\ "to" \in DOMAIN rule /\ rule.to = Rel0.to)

RECURSIVE SourcesOf(_)
SourcesOf(rules) ==
    IF rules = <<>> THEN <<>>
    ELSE Get(Head(rules), "sources", <<>>) \o SourcesOf(Tail(rules))

C5_LastMatchingRuleWins ==
    (cmd = "mer" /\ pc = "unify") =>
        IF Matching = <<>>
        THEN mer.relationships[1] = Rel0
        ELSE LET last == Matching[Len(Matching)]
                 res == mer.relationships[1]
             IN  /\ "type" \in DOMAIN last => res.type = last.type
                 /\ res.sources = Get(Rel0, "sources", <<>>) \o SourcesOf(Matching)
                 /\ res.from = Rel0.from /\ res.to = Rel0.to

C5_Witness ==
    /\ cmd = "mer" /\ pc = "unify"
    /\ Len(ctx.rules) = 2 /\ Len(Matching) = 2
    /\ "type" \in DOMAIN Matching[1] /\ "type" \in DOMAIN Matching[2]
    /\ Matching[1].type # Matching[2].type
    /\ mer.relationships[1].type = Matching[2].type
    /\ mer.relationships[1].sources = <<"figma:c1", "doc:y", "doc:z", "doc:x">>

(***************************************************************************)
(* C6, C7, C8 are read in the MER merge_parts returned (pc = "unify"),     *)
(* for every entity name the passes returned, repeated names included.     *)
(***************************************************************************)
NamesOf(ents) == {ents[i].name : i \in DOMAIN ents}
EntityNamed(ents, n) == ents[CHOOSE i \in DOMAIN ents : ents[i].name = n]

\* the entries of a pass result with the name n, in the order returned
EntriesNamed(ents, n) == SelectSeq(ents, LAMBDA x : x.name = n)

\* the citations a pass returned for the name n, in the order returned
RECURSIVE Citations(_)
Citations(entries) ==
    IF entries = <<>> THEN <<>>
    ELSE Get(Head(entries), "sources", <<>>) \o Citations(Tail(entries))

\* the names present in both pass results
SharedNames == NamesOf(EntitiesReturned) \cap NamesOf(AttributesReturned)

Merged == cmd = "mer" /\ pc = "unify"

(***************************************************************************)
(* C6.  For every entity name present in both the Entities pass result and *)
(* the Attributes pass result, the merged confidence is the maximum of the *)
(* confidences the passes returned for that name (a missing confidence     *)
(* counts 0), hence not lower than any of them.  Stated as claimed; the    *)
(* code violates it (SpecMerge).                                           *)
(***************************************************************************)
C6_ConfidenceIsMax ==
    Merged =>
        \A n \in SharedNames :
            LET returned == EntriesNamed(EntitiesReturned, n)
                                \o EntriesNamed(AttributesReturned, n)
                confs == {Get(returned[i], "confidence", 0) : i \in DOMAIN returned}
                cm == EntityNamed(mer.entities, n).confidence
            IN  /\ cm \in confs
                /\ \A c \in confs : cm >= c

(***************************************************************************)
(* C7.  For every entity name present in both passes, the merged entity    *)
(* has the attribute list the Attributes pass returned for it and, as      *)
(* sources, the citations the Entities pass returned for the name followed *)
(* by those the Attributes pass returned for it: no citation of the        *)
(* Entities pass is dropped, also when the Attributes pass returned its    *)
(* fallback.  Stated as claimed; the code violates it (SpecMerge).         *)
(***************************************************************************)
C7_AttributesOverwrittenSourcesExtended ==
    Merged =>
        \A n \in SharedNames :
            LET m == EntityNamed(mer.entities, n)
                withList == SelectSeq(EntriesNamed(AttributesReturned, n),
                                      LAMBDA x : "attributes" \in DOMAIN x)
            IN  /\ withList # <<>> => m.attributes = withList[Len(withList)].attributes
                /\ m.sources = Citations(EntriesNamed(EntitiesReturned, n))
                                  \o Citations(EntriesNamed(AttributesReturned, n))

(***************************************************************************)
(* C8.  The entity names of the merged MER are exactly those of the        *)
(* Entities pass together with those of the Attributes pass (SpecMerge).   *)
(***************************************************************************)
C8_NamesAreUnion ==
    Merged =>
        NamesOf(mer.entities) = NamesOf(EntitiesReturned) \cup NamesOf(AttributesReturned)

C8_Witness ==
    /\ Merged
    /\ NamesOf(AttributesReturned) \ NamesOf(EntitiesReturned) # {}
    /\ NamesOf(EntitiesReturned) \ NamesOf(AttributesReturned) # {}
    /\ Len(mer.entities) = 4

(***************************************************************************)
(* C9.  The entity names of the MER handed to the validator and written    *)
(* are pairwise distinct.  Stated as claimed; the code violates it (Spec). *)
(***************************************************************************)
C9_NormalizedNamesDistinct ==
    Normalized =>
        \A i, j \in DOMAIN mer.entities :
            i # j => mer.entities[i].name # mer.entities[j].name

(***************************************************************************)
(* C10.  The canonical entity name holds only alphanumeric characters, is  *)
(* the alias-resolved name without its non-alphanumeric characters up to   *)
(* the case of its first character, and, when it begins with a letter,     *)
(* begins with an uppercase letter.  Stated as claimed; the code violates  *)
(* it (SpecNaming).                                                        *)
(***************************************************************************)
C10_CanonicalNameCapitalized ==
    Normalized =>
        \A i \in DOMAIN mer.entities :
            LET resolved == ApplyAliases(EntitiesReturned[i].name, ctx.glossary)
                kept == SelectSeq(resolved, IsAlnum)
                canon == mer.entities[i].name
            IN  /\ \A k \in DOMAIN canon : IsAlnum(canon[k])
                /\ Len(canon) = Len(kept)
                /\ \A k \in DOMAIN canon : k > 1 => canon[k] = kept[k]
                /\ (canon # <<>> /\ IsLetter(canon[1])) => IsUpper(canon[1])

(***************************************************************************)
(* C11.  For every attribute name with at least one alphanumeric           *)
(* character, normalize_attr_name returns the lower-camel form: the        *)
(* alphanumeric characters of the name in order, none added or dropped,    *)
(* those of the first maximal alphanumeric run lower-cased, and of every   *)
(* later run the first character upper-cased and the others lower-cased    *)
(* (str.capitalize) (SpecNaming).                                          *)
(***************************************************************************)
\* the number of alphanumeric characters among name[1..i]
AlnumRank(name, i) == Cardinality({k \in 1..i : IsAlnum(name[k])})

\* name[i] begins a maximal run of alphanumeric characters
TokenStart(name, i) == IsAlnum(name[i]) /\ (i = 1 \/ ~IsAlnum(name[i-1]))

\* name[i] lies in the first maximal run of alphanumeric characters
InFirstToken(name, i) ==
    /\ IsAlnum(name[i])
    /\ \A k \in 1..i : ~IsAlnum(name[k]) => \A j \in 1..k : ~IsAlnum(name[j])

LowerCamelOf(raw, out) ==
    /\ Len(out) = AlnumRank(raw, Len(raw))
    /\ \A i \in DOMAIN raw :
          IsAlnum(raw[i]) =>
              out[AlnumRank(raw, i)] =
                  IF InFirstToken(raw, i) THEN Lower(raw[i])
                  ELSE IF TokenStart(raw, i) THEN Upper(raw[i])
                  ELSE Lower(raw[i])

\* the attribute names the passes returned, beside those of the unified MER
AttrNamePairs ==
    {<<EntitiesReturned[i].attributes[j].name, mer.entities[i].attributes[j].name>> :
        i \in DOMAIN mer.entities, j \in DOMAIN mer.entities[1].attributes}

C11_AttrNameLowerCamel ==
    Normalized =>
        \A pr \in AttrNamePairs :
            (\E k \in DOMAIN pr[1] : IsAlnum(pr[1][k])) => LowerCamelOf(pr[1], pr[2])

\* a name of two tokens whose first token holds an upper-case letter
C11_Witness ==
    /\ Normalized
    /\ \E pr \in AttrNamePairs :
          /\ Len(Tokens(pr[1])) = 2
          /\ IsUpper(pr[1][1])
          /\ \E k \in DOMAIN pr[1] : k > 1 /\ IsLower(pr[1][k]) /\ TokenStart(pr[1], k)

(***************************************************************************)
(* C12.  Each inference pass invokes the completion capability at least    *)
(* once and at most twice per run, and twice exactly when the first        *)
(* completion was empty or whitespace-only; a non-empty unparseable        *)
(* completion is never retried.  Stated as claimed; run_entities and       *)
(* run_relationships violate it (Spec).                                    *)
(***************************************************************************)
Passes == {"entities", "attributes", "relationships"}

\* pass p has returned a result
PassReturned(p) ==
    CASE p = "entities" -> e # NotRun
      [] p = "attributes" -> a # NotRun
      [] p = "relationships" -> r # NotRun

C12_RetryIffFirstEmpty ==
    \A p \in Passes :
        /\ PassReturned(p) => CallsOf(p) # <<>>
        /\ CallsOf(p) # <<>> =>
              /\ Len(CallsOf(p)) <= 2
              /\ Len(CallsOf(p)) = 2 <=> IsEmptyOut(CallsOf(p)[1].out)

(***************************************************************************)
(* C13.  In the `mer` command and in run_full_pipeline the MER file is     *)
(* written only after validate_mer_basic has accepted the merged and       *)
(* normalized MER: a written file holds the MER the validator accepted,    *)
(* and in a run whose MER has an entity without primary key no file is     *)
(* written (Spec).                                                         *)
(***************************************************************************)
C13_WrittenOnlyAfterAccepted ==
    cmd \in PipelineCmds =>
        /\ outFile # <<>> =>
              /\ pc = "done"
              /\ outFile = <<mer>>
              /\ ValidateMerBasic(mer)
        /\ ( /\ "entities" \in DOMAIN mer
             /\ \E i \in DOMAIN mer.entities : LacksPk(mer.entities[i]) )
              => outFile = <<>>

\* the validator has rejected a normalized MER with an entity without
\* primary key, and nothing has been written
C13_Witness ==
    /\ cmd = "full_pipeline"
    /\ pc = "failed" /\ err = "AssertionError"
    /\ \E i \in DOMAIN mer.entities : LacksPk(mer.entities[i])
    /\ outFile = <<>>

(***************************************************************************)
(* SpecQuestions: the `mer` command where each pass returns any list of    *)
(* at most MaxQuestions open questions out of QuestionPool (repetitions    *)
(* included), or a result without the open_questions key, and the          *)
(* Attributes pass may also fall back.                                     *)
(***************************************************************************)
QuestionPool ==
    {[question |-> "Is Order owned by one user?", sources |-> <<"figma:n3">>],
     [question |-> "LLM response parsing failed", sources |-> <<"doc:x">>]}

QuestionLists == SeqsUpTo(QuestionPool, MaxQuestions)

QuestionsEntitiesOutputs ==
    {JsonOut([entities |-> UserBody.entities])} \cup
    {JsonOut([entities |-> UserBody.entities, open_questions |-> qs]) : qs \in QuestionLists}

QuestionsAttributesOutputs == {EmptyOut, GarbageOut} \cup QuestionsEntitiesOutputs

QuestionsRelationshipsOutputs ==
    {JsonOut([relationships |-> <<>>])} \cup
    {JsonOut([relationships |-> <<>>, open_questions |-> qs]) : qs \in QuestionLists}

InitQuestions == InitMer({Context(<<>>, <<>>)})

NextQuestions ==
    \/ RunEntities(QuestionsEntitiesOutputs)
    \/ RunAttributes(QuestionsAttributesOutputs)
    \/ RunRelationships(QuestionsRelationshipsOutputs)
    \/ MergeStep
    \/ UnifyStep
    \/ ValidateStep
    \/ WriteStep

SpecQuestions == InitQuestions /\ [][NextQuestions]_vars

(***************************************************************************)
(* C14.  meta.open_questions of the MER returned by merge_parts is the     *)
(* concatenation of the open questions the Entities pass returned, then    *)
(* those of the Attributes pass, then those of the Relationships pass,     *)
(* each in its order, none added, dropped or reordered (SpecQuestions).    *)
(***************************************************************************)
\* the open questions pass p returned, read off its last completion; the
\* fallback of the Attributes pass returns its one question
QuestionsReturned(p) ==
    LET out == LastOut(p)
    IN  IF JsonLoads(out) THEN Get(out.body, "open_questions", <<>>)
        ELSE IF IsEmptyOut(out)
        THEN <<[question |-> EmptyResponseQuestion,
                sources |-> <<"system:llm_error">>]>>
        ELSE <<[question |-> ParsingFailedQuestion(out),
                sources |-> <<"system:json_error">>]>>

C14_OpenQuestionsConcatenated ==
    Merged =>
        LET qe == QuestionsReturned("entities")
            qa == QuestionsReturned("attributes")
            qr == QuestionsReturned("relationships")
            q == mer.meta.open_questions
        IN  /\ Len(q) = Len(qe) + Len(qa) + Len(qr)
            /\ \A i \in DOMAIN qe : q[i] = qe[i]
            /\ \A i \in DOMAIN qa : q[Len(qe) + i] = qa[i]
            /\ \A i \in DOMAIN qr : q[Len(qe) + Len(qa) + i] = qr[i]

\* each pass returned two questions, those of the Entities pass differ from
\* those of the Attributes pass
C14_Witness ==
    /\ Merged
    /\ Len(QuestionsReturned("entities")) = 2
    /\ Len(QuestionsReturned("attributes")) = 2
    /\ Len(QuestionsReturned("relationships")) = 2
    /\ QuestionsReturned("entities")[1] # QuestionsReturned("entities")[2]
    /\ QuestionsReturned("entities") # QuestionsReturned("attributes")
    /\ Len(mer.meta.open_questions) = 6

(***************************************************************************)
(* projectors/prisma/to_prisma.py                                          *)
(*                                                                         *)
(* A text is the sequence of its lines (text.split("\n")).  A line is a    *)
(* record: [line |-> "model", name], [line |-> "field", name, type,        *)
(* decorators], [line |-> "blank"] (the empty line), [line |-> "@@map",    *)
(* name], [line |-> "}"], [line |-> "enum", name], [line |-> "value",      *)
(* name], and [line |-> "header"] for the fixed lines of the datasource    *)
(* and generator blocks.  The type of a field is [scalar |-> t, mod |-> m] *)
(* for a target type name t or [model |-> n, mod |-> m] for an entity name *)
(* n, with m the suffix "", "?" or "[]".  A decorator is a record whose    *)
(* field d is its text up to its argument.  Attribute, entity and enum     *)
(* value names and fk.ref are sequences of characters; logical types and   *)
(* default values are strings.                                             *)
(***************************************************************************)
\* s.endswith(suffix)
EndsWith(s, suffix) ==
    /\ Len(s) >= Len(suffix)
    /\ SubSeq(s, Len(s) - Len(suffix) + 1, Len(s)) = suffix

\* sub in s
Contains(s, sub) ==
    \E i \in 1..(Len(s) - Len(sub) + 1) : SubSeq(s, i, i + Len(sub) - 1) = sub

createdAt == <<"c","r","e","a","t","e","d","A","t">>
updatedAt == <<"u","p","d","a","t","e","d","A","t">>
deletedAt == <<"d","e","l","e","t","e","d","A","t">>

\* type_str.lower() on the spellings of logical types that hold an
\* upper-case letter; every other spelling of the model is lower-case
TypeLower(type_str) ==
    CASE type_str = "String" -> "string"
      [] type_str = "Int" -> "int"
      [] type_str = "DATE" -> "date"
      [] type_str = "Boolean" -> "boolean"
      [] OTHER -> type_str

\* the dict type_mapping (lines 21-39) with its default of line 42
TypeMapping(base_type) ==
    CASE base_type = "string" -> [type |-> "String", db |-> "@db.VarChar(255)"]
      [] base_type = "text" -> [type |-> "String", db |-> "@db.Text"]
      [] base_type = "int" -> [type |-> "Int", db |-> ""]
      [] base_type = "integer" -> [type |-> "Int", db |-> ""]
      [] base_type = "bigint" -> [type |-> "BigInt", db |-> ""]
      [] base_type = "float" -> [type |-> "Float", db |-> ""]
      [] base_type = "decimal" -> [type |-> "Decimal", db |-> "@db.Decimal(10,2)"]
      [] base_type = "boolean" -> [type |-> "Boolean", db |-> ""]
      [] base_type = "bool" -> [type |-> "Boolean", db |-> ""]
      [] base_type = "date" -> [type |-> "DateTime", db |-> "@db.Date"]
      [] base_type = "datetime" -> [type |-> "DateTime", db |-> "@db.Timestamptz(6)"]
      [] base_type = "timestamp" -> [type |-> "DateTime", db |-> "@db.Timestamptz(6)"]
      [] base_type = "uuid" -> [type |-> "String", db |-> "@db.Uuid"]
      [] base_type = "cuid" -> [type |-> "String", db |-> ""]
      [] base_type = "json" -> [type |-> "Json", db |-> "@db.JsonB"]
      [] base_type = "email" -> [type |-> "String", db |-> "@db.VarChar(255)"]
      [] base_type = "url" -> [type |-> "String", db |-> "@db.VarChar(500)"]
      [] OTHER -> [type |-> "String", db |-> "@db.VarChar(255)"]

\* mutant: the attribute name is not looked at
MapTypeByTypeOnly(type_str, attr_name) ==
    TypeMapping(IF type_str # "" THEN TypeLower(type_str) ELSE "string")

\* map_type_with_db_constraints(type_str, attr_name)
MapTypeWithDbConstraints(type_str, attr_name) ==
    LET base_type == IF type_str # "" THEN TypeLower(type_str) ELSE "string"
        lower == LowerStr(attr_name)
        varchar == [type |-> "String", db |-> "@db.VarChar(255)"]
        timestamptz == [type |-> "DateTime", db |-> "@db.Timestamptz(6)"]
        byId == IF lower \in {<<"i","d">>} \/ EndsWith(lower, <<"i","d">>)
                THEN [type |-> "String", db |-> "@db.Uuid"]
                ELSE TypeMapping(base_type)
    IN  IF Contains(lower, <<"p","a","s","s","w","o","r","d">>) THEN varchar
        ELSE IF Contains(lower, <<"e","m","a","i","l">>) THEN varchar
        ELSE IF Contains(lower, <<"n","a","m","e">>) THEN varchar
        ELSE IF Contains(lower, <<"d","e","s","c","r","i","p","t","i","o","n">>)
             THEN [type |-> "String", db |-> "@db.Text"]
        ELSE IF lower \in {<<"c","r","e","a","t","e","d","a","t">>,
                           <<"c","r","e","a","t","e","d","_","a","t">>}
             THEN timestamptz
        ELSE IF lower \in {<<"u","p","d","a","t","e","d","a","t">>,
                           <<"u","p","d","a","t","e","d","_","a","t">>}
             THEN timestamptz
        ELSE IF lower \in {<<"d","e","l","e","t","e","d","a","t">>,
                           <<"d","e","l","e","t","e","d","_","a","t">>}
             THEN timestamptz
        ELSE byId

\* to_snake_case(name)
RECURSIVE SnakeFrom(_, _)
SnakeFrom(name, i) ==
    IF i > Len(name) THEN <<>>
    ELSE (IF IsUpper(name[i]) /\ i > 1 THEN <<"_">> ELSE <<>>)
         \o <<Lower(name[i])>> \o SnakeFrom(name, i + 1)

ToSnakeCase(name) == SnakeFrom(name, 1)

\* generate_standard_fields()
GenerateStandardFields ==
    <<[name |-> createdAt, type |-> "DateTime", nullable |-> FALSE,
       default |-> "now()",
       map |-> <<"c","r","e","a","t","e","d","_","a","t">>,
       db |-> "@db.Timestamptz(6)"],
      [name |-> updatedAt, type |-> "DateTime", nullable |-> FALSE,
       updatedAt |-> TRUE,
       map |-> <<"u","p","d","a","t","e","d","_","a","t">>,
       db |-> "@db.Timestamptz(6)"],
      [name |-> deletedAt, type |-> "DateTime", nullable |-> TRUE,
       map |-> <<"d","e","l","e","t","e","d","_","a","t">>,
       db |-> "@db.Timestamptz(6)"]>>

\* value.replace("-", "_").replace(" ", "_").upper()
EnhanceEnumValue(value) ==
    [i \in DOMAIN value |-> IF value[i] \in {"-", " "} THEN "_" ELSE Upper(value[i])]

\* enhance_enum_values(enum_values)
EnhanceEnumValues(enum_values) ==
    [i \in DOMAIN enum_values |-> EnhanceEnumValue(enum_values[i])]

BlankLine == [line |-> "blank"]
CloseLine == [line |-> "}"]
HeaderLine == [line |-> "header"]
ModelLine(name) == [line |-> "model", name |-> name]
MapLine(name) == [line |-> "@@map", name |-> name]
EnumLine(name) == [line |-> "enum", name |-> name]
ValueLine(name) == [line |-> "value", name |-> name]
FieldLine(name, type, decorators) ==
    [line |-> "field", name |-> name, type |-> type, decorators |-> decorators]
Scalar(t, m) == [scalar |-> t, mod |-> m]
ModelType(n, m) == [model |-> n, mod |-> m]

RECURSIVE Flatten(_)
Flatten(ss) == IF ss = <<>> THEN <<>> ELSE Head(ss) \o Flatten(Tail(ss))

\* "".join of two texts whose first ends with an empty line: that line and
\* the first line of the second text become one line
TextConcat(p, q) == SubSeq(p, 1, Len(p) - 1) \o q

\* generate_enums(enums), enums not empty
GenerateEnums(enums) ==
    Flatten([i \in DOMAIN enums |->
        LET values == EnhanceEnumValues(enums[i].values)
        IN  <<EnumLine(enums[i].name)>>
            \o [k \in DOMAIN values |-> ValueLine(values[k])]
            \o <<CloseLine, BlankLine>>])

\* s.split('.')[-1]
AfterLastDot(s) ==
    LET dots == {i \in DOMAIN s : s[i] = "."}
    IN  IF dots = {} THEN s
        ELSE SubSeq(s, (CHOOSE i \in dots : \A j \in dots : j <= i) + 1, Len(s))


\* the entry rel_map[rel['from']] gets for rel (lines 235-240)
RelEntry(rel) ==
    LET fk_info == Get(rel, "fk", [none |-> TRUE])
    IN  [to |-> rel.to,
         type |-> rel.type,
         fk_attribute |-> Get(fk_info, "attribute", LowerStr(rel.to) \o <<"I","d">>),
         ref_field |-> AfterLastDot(Get(fk_info, "ref", <<"U","s","e","r",".","i","d">>))]

\* rel_map.get(name, []): the entries of the relationships from name, in
\* the order of the list
RelMap(relationships, name) ==
    LET from == SelectSeq(relationships, LAMBDA rel : rel.from = name)
    IN  [i \in DOMAIN from |-> RelEntry(from[i])]

\* name in rel_map
InRelMap(relationships, name) == \E i \in DOMAIN relationships : relationships[i].from = name

\* the line of one attribute (lines 247-281)
AttributeLine(attr) ==
    LET attr_name == attr.name
        type_info == MapTypeWithDbConstraints(Get(attr, "type", "string"), attr_name)
        pk == Get(attr, "pk", FALSE)
        default == Get(attr, "default", "")
        snake_name == ToSnakeCase(attr_name)
        decorators ==
            (IF pk THEN <<[d |-> "@id"], [d |-> "@default(uuid())"]>> ELSE <<>>)
            \o (IF Get(attr, "unique", FALSE) THEN <<[d |-> "@unique"]>> ELSE <<>>)
            \o (IF default # "" /\ ~pk
                THEN <<[d |-> "@default", arg |-> default,
                        quoted |-> default \notin {"now()", "true", "false"}]>>
                ELSE <<>>)
            \o (IF snake_name # LowerStr(attr_name)
                THEN <<[d |-> "@map", arg |-> snake_name]>> ELSE <<>>)
            \o (IF type_info.db # "" THEN <<[d |-> type_info.db]>> ELSE <<>>)
    IN  FieldLine(attr_name,
                  Scalar(type_info.type, IF Get(attr, "nullable", FALSE) THEN "?" ELSE ""),
                  decorators)

\* the lines of one outgoing relationship (lines 286-300)
RelationLines(entity, rel) ==
    LET attrs == Get(entity, "attributes", <<>>)
        fk_exists == \E i \in DOMAIN attrs : attrs[i].name = rel.fk_attribute
        snake_fk == ToSnakeCase(rel.fk_attribute)
    IN  (IF fk_exists THEN <<>>
         ELSE <<FieldLine(rel.fk_attribute, Scalar("String", ""),
                          (IF snake_fk # LowerStr(rel.fk_attribute)
                           THEN <<[d |-> "@map", arg |-> snake_fk]>> ELSE <<>>)
                          \o <<[d |-> "@db.Uuid"]>>)>>)
        \o <<FieldLine(LowerStr(rel.to), ModelType(rel.to, ""),
                       <<[d |-> "@relation", fields |-> rel.fk_attribute,
                          references |-> rel.ref_field]>>)>>

\* reverse_rels of the entity called name (lines 303-310)
ReverseRels(entities, relationships, name) ==
    Flatten([k \in DOMAIN entities |->
        LET other == entities[k].name
            toName == SelectSeq(RelMap(relationships, other), LAMBDA rel : rel.to = name)
        IN  [i \in DOMAIN toName |->
                FieldLine(LowerStr(other) \o <<"s">>, ModelType(other, "[]"), <<>>)]])

AuditNames == {createdAt, updatedAt, deletedAt}

\* the line of one standard field (lines 323-339)
StandardFieldLine(field) ==
    FieldLine(field.name,
              Scalar(field.type, IF field.nullable THEN "?" ELSE ""),
              (IF Get(field, "default", "") # ""
               THEN <<[d |-> "@default", arg |-> field.default, quoted |-> FALSE]>>
               ELSE <<>>)
              \o (IF Get(field, "updatedAt", FALSE) THEN <<[d |-> "@updatedAt"]>> ELSE <<>>)
              \o <<[d |-> "@map", arg |-> field.map], [d |-> field.db]>>)

\* the standard audit fields of one model block (lines 317-339)
AuditLines(entity) ==
    LET attrs == Get(entity, "attributes", <<>>)
        has_audit_fields == \E i \in DOMAIN attrs : attrs[i].name \in AuditNames
    IN  IF has_audit_fields THEN <<>>
        ELSE <<BlankLine>>
             \o [i \in DOMAIN GenerateStandardFields |->
                    StandardFieldLine(GenerateStandardFields[i])]

\* the model block of entities[k] (lines 242-346)
ModelBlock(entities, relationships, k) ==
    LET entity == entities[k]
        name == entity.name
        attrs == Get(entity, "attributes", <<>>)
        rels == RelMap(relationships, name)
        reverse_rels == ReverseRels(entities, relationships, name)
    IN  <<ModelLine(name)>>
        \o [i \in DOMAIN attrs |-> AttributeLine(attrs[i])]
        \o (IF InRelMap(relationships, name)
            THEN <<BlankLine>> \o Flatten([i \in DOMAIN rels |-> RelationLines(entity, rels[i])])
            ELSE <<>>)
        \o (IF reverse_rels # <<>> THEN <<BlankLine>> \o reverse_rels ELSE <<>>)
        \o AuditLines(entity)
        \o <<BlankLine, MapLine(ToSnakeCase(name)), CloseLine, BlankLine>>

\* generate_models(entities, relationships)
GenerateModels(entities, relationships) ==
    Flatten([k \in DOMAIN entities |-> ModelBlock(entities, relationships, k)])

\* the KeyError of a subscript on a missing key: enum['name'],
\* enum['values'], rel['from'], rel['to'], rel['type'], entity['name'],
\* attr['name']
MerToPrismaRaises(mer_data) ==
    LET enums == Get(mer_data, "enums", <<>>)
        entities == Get(mer_data, "entities", <<>>)
        relationships == Get(mer_data, "relationships", <<>>)
    IN  \/ \E i \in DOMAIN enums : {"name", "values"} \ DOMAIN enums[i] # {}
        \/ /\ entities # <<>>
           /\ \/ \E i \in DOMAIN relationships :
                    {"from", "to", "type"} \ DOMAIN relationships[i] # {}
              \/ \E k \in DOMAIN entities :
                    \/ "name" \notin DOMAIN entities[k]
                    \/ \E i \in DOMAIN Get(entities[k], "attributes", <<>>) :
                          "name" \notin DOMAIN entities[k].attributes[i]

\* mer_to_prisma(mer_data, use_ai=False): base_schema (lines 354-393)
BaseSchema(mer_data) ==
    LET enums == Get(mer_data, "enums", <<>>)
        entities == Get(mer_data, "entities", <<>>)
        relationships == Get(mer_data, "relationships", <<>>)
        header == <<HeaderLine, BlankLine, BlankLine>>
        withEnums == IF enums # <<>> THEN TextConcat(header, GenerateEnums(enums))
                     ELSE header
    IN  IF entities # <<>>
        THEN TextConcat(withEnums, GenerateModels(entities, relationships))
        ELSE withEnums

(***************************************************************************)
(* enhance_schema_with_ai.  One attempt of the enrichment ends in one of   *)
(*   [kind |-> "construct_error"]  OpenAIClient() raised                   *)
(*   [kind |-> "call_error"]       llm.run_model raised                    *)
(*   [kind |-> "none"]             run_model returned None, so that        *)
(*                                 response.strip() raises AttributeError  *)
(*   [kind |-> "text", text |-> t] run_model returned the text t           *)
(* A line [line |-> "fence", lang |-> l] of a returned text is a line made *)
(* of three backquotes followed by l ("prisma" or "").                     *)
(***************************************************************************)
FenceLine(lang) == [line |-> "fence", lang |-> lang]
ProseLine == [line |-> "prose"]

EnrichmentRaises(resp) == resp.kind \in {"construct_error", "call_error", "none"}

\* str.strip() on a text: its leading and trailing empty lines go
RECURSIVE StripLeft(_)
StripLeft(t) == IF t # <<>> /\ Head(t) = BlankLine THEN StripLeft(Tail(t)) ELSE t

RECURSIVE StripRight(_)
StripRight(t) ==
    IF t # <<>> /\ t[Len(t)] = BlankLine THEN StripRight(SubSeq(t, 1, Len(t) - 1)) ELSE t

Strip(t) == StripRight(StripLeft(t))

\* the text between the fence at line i and the next fence, stripped; the
\* whole text when no fence follows (lines 184-193)
Unfence(t, i) ==
    LET later == {j \in DOMAIN t : j > i /\ t[j].line = "fence"}
    IN  IF later = {} THEN t
        ELSE Strip(SubSeq(t, i + 1, Least(later) - 1))

\* the response handling of lines 181-196
CleanResponse(response) ==
    LET enhanced_schema == Strip(response)
        prisma == {i \in DOMAIN enhanced_schema :
                      enhanced_schema[i] = FenceLine("prisma")}
        fences == {i \in DOMAIN enhanced_schema : enhanced_schema[i].line = "fence"}
    IN  IF prisma # {} THEN Unfence(enhanced_schema, Least(prisma))
        ELSE IF fences # {} THEN Unfence(enhanced_schema, Least(fences))
        ELSE enhanced_schema

\* mutant: an error of the enrichment leaves an empty text
EnhanceSchemaWithAiFailsEmpty(base_schema, resp) ==
    IF EnrichmentRaises(resp) THEN <<>> ELSE CleanResponse(resp.text)

\* enhance_schema_with_ai(mer_data, base_schema) when the attempt ends in resp
EnhanceSchemaWithAi(base_schema, resp) ==
    IF EnrichmentRaises(resp) THEN base_schema ELSE CleanResponse(resp.text)

(***************************************************************************)
(* The `prisma` command of run_all.main (lines 89-101), which calls        *)
(* mer_to_prisma(mer) with use_ai at its default True, and to_prisma.main  *)
(* (lines 402-459), where use_ai is FALSE iff --no-ai is given;            *)
(* full_pipeline.main runs to_prisma.main as a subprocess.                 *)
(***************************************************************************)
PrismaCmds == {"prisma", "to_prisma", "full_pipeline.main"}

\* mutant: the standard audit fields are appended to the attributes of the
\* entities of the MER itself
ProjectStepMutating(Responses) ==
    /\ cmd \in PrismaCmds /\ pc = "project"
    /\ IF MerToPrismaRaises(mer)
       THEN /\ Fail(IF cmd = "prisma" THEN "KeyError" ELSE "SystemExit")
            /\ UNCHANGED <<schema, calls, mer>>
       ELSE /\ pc' = "write_schema"
            /\ err' = err
            /\ mer' = [mer EXCEPT !.entities =
                          [k \in DOMAIN mer.entities |->
                              [mer.entities[k] EXCEPT !.attributes =
                                  @ \o [i \in 1..3 |->
                                           [name |-> GenerateStandardFields[i].name,
                                            type |-> "datetime"]]]]]
            /\ IF use_ai
               THEN \E resp \in Responses :
                       /\ schema' = EnhanceSchemaWithAi(BaseSchema(mer), resp)
                       /\ calls' = Append(calls, [pass |-> "enhance", out |-> resp])
               ELSE /\ schema' = BaseSchema(mer)
                    /\ calls' = calls
    /\ UNCHANGED <<out_prisma, batch, fs, cmd, ctx, heap, e, a, r, outFile, use_ai>>

\* schema = mer_to_prisma(mer, use_ai); to_prisma.main turns an exception
\* into sys.exit(1)
ProjectStep(Responses) ==
    /\ cmd \in PrismaCmds /\ pc = "project"
    /\ IF MerToPrismaRaises(mer)
       THEN /\ Fail(IF cmd = "prisma" THEN "KeyError" ELSE "SystemExit")
            /\ UNCHANGED <<schema, calls>>
       ELSE /\ pc' = "write_schema"
            /\ err' = err
            /\ IF use_ai
               THEN \E resp \in Responses :
                       /\ schema' = EnhanceSchemaWithAi(BaseSchema(mer), resp)
                       /\ calls' = Append(calls, [pass |-> "enhance", out |-> resp])
               ELSE /\ schema' = BaseSchema(mer)
                    /\ calls' = calls
    /\ UNCHANGED <<out_prisma, batch, fs, cmd, ctx, heap, e, a, r, mer, outFile, use_ai>>

\* os.path.dirname of a path given by its components
Dirname(path) == SubSeq(path, 1, Len(path) - 1)

\* os.makedirs(os.path.dirname(out_prisma), exist_ok=True), which raises
\* FileNotFoundError for the empty directory name of a path without a
\* directory part, then f.write(schema); to_prisma.main makes the
\* directory schema of its fixed output path
WriteSchemaStep ==
    /\ cmd \in PrismaCmds /\ pc = "write_schema"
    /\ IF Dirname(out_prisma) = <<>>
       THEN /\ Fail("FileNotFoundError")
            /\ outFile' = outFile
       ELSE /\ outFile' = <<schema>>
            /\ pc' = "done"
            /\ err' = err
    /\ UNCHANGED <<out_prisma, batch, fs, cmd, ctx, heap, e, a, r, mer, calls, use_ai, schema>>

\* the output paths of `prisma` drawn: without and with a directory part
PrismaOutputPaths == {<<"schema.prisma">>, <<"out", "schema.prisma">>}

\* the state of `prisma <in-mer> <out>` after json.load
InitPrisma(Files) ==
    /\ cmd = "prisma"
    /\ pc = "project"
    /\ ctx = NotRun
    /\ heap = <<>>
    /\ e = NotRun /\ a = NotRun /\ r = NotRun
    /\ mer \in Files
    /\ calls = <<>>
    /\ err = ""
    /\ outFile = <<>>
    /\ use_ai = TRUE /\ schema = <<>>
    /\ batch = NotRun /\ fs = NotRun
    /\ out_prisma \in PrismaOutputPaths

\* the state of to_prisma.main after json.load
InitToPrisma(Files) ==
    /\ cmd = "to_prisma"
    /\ pc = "project"
    /\ ctx = NotRun
    /\ heap = <<>>
    /\ e = NotRun /\ a = NotRun /\ r = NotRun
    /\ mer \in Files
    /\ calls = <<>>
    /\ err = ""
    /\ outFile = <<>>
    /\ use_ai \in BOOLEAN /\ schema = <<>>
    /\ batch = NotRun /\ fs = NotRun
    /\ out_prisma = <<"schema", "schema.prisma">>

(***************************************************************************)
(* SpecTypes: the projection, by `prisma` and by to_prisma.main with and   *)
(* without --no-ai, of a MER of one entity whose attributes are any list   *)
(* of at most MaxTypedAttributes attributes with a name of TypedNames and  *)
(* a logical type of LogicalTypes, or no type key.  The enrichment fails.  *)
(***************************************************************************)
TypedNames == {total, id, user_id, createdAt}

LogicalTypes ==
    {"string", "text", "int", "integer", "bigint", "float", "decimal", "boolean",
     "bool", "date", "datetime", "timestamp", "uuid", "cuid", "json", "email",
     "url", "foo", "", "DATE"}

TypedAttributes ==
    {[name |-> n] : n \in TypedNames}
    \cup {[name |-> n, type |-> t] : n \in TypedNames, t \in LogicalTypes}

TypesFiles ==
    {[entities |-> <<[name |-> User, attributes |-> attrs]>>, relationships |-> <<>>] :
        attrs \in SeqsUpTo(TypedAttributes, MaxTypedAttributes)}

FailingResponses == {[kind |-> "call_error"]}

InitTypes == InitPrisma(TypesFiles) \/ InitToPrisma(TypesFiles)

NextTypes ==
    \/ ProjectStep(FailingResponses)
    \/ WriteSchemaStep

SpecTypes == InitTypes /\ [][NextTypes]_vars

(***************************************************************************)
(* What mer_to_prisma returned, read off its text.                         *)
(***************************************************************************)
\* the rule-based projection has returned
RuleBased == cmd \in PrismaCmds /\ ~use_ai /\ pc \in {"write_schema", "done"}

\* the index in text of the line that opens its k-th model block
ModelStart(text, k) ==
    CHOOSE i \in DOMAIN text :
        /\ text[i].line = "model"
        /\ Cardinality({j \in 1..i : text[j].line = "model"}) = k

\* the field lines of the k-th model block of text
BlockFields(text, k) ==
    LET first == ModelStart(text, k)
        closes == {j \in DOMAIN text : j > first /\ text[j].line = "}"}
    IN  SelectSeq(SubSeq(text, first, Least(closes)), LAMBDA l : l.line = "field")

(***************************************************************************)
(* C15.  In the rule-based projection the target type name emitted for     *)
(* every attribute is the one the fixed table gives for its logical type   *)
(* (string, text, uuid, cuid, email, url to String, int and integer to     *)
(* Int, bigint to BigInt, float to Float, decimal to Decimal, boolean and  *)
(* bool to Boolean, date to Date, datetime and timestamp to DateTime, json *)
(* to Json, any other type to String), whatever the attribute's name is.   *)
(* Stated as claimed; the code violates it (SpecTypes).                    *)
(***************************************************************************)
TableTargetType(t) ==
    CASE t \in {"int", "integer"} -> "Int"
      [] t = "bigint" -> "BigInt"
      [] t = "float" -> "Float"
      [] t = "decimal" -> "Decimal"
      [] t \in {"boolean", "bool"} -> "Boolean"
      [] t = "date" -> "Date"
      [] t \in {"datetime", "timestamp"} -> "DateTime"
      [] t = "json" -> "Json"
      [] OTHER -> "String"

C15_TypeByTableAlone ==
    RuleBased =>
        \A k \in DOMAIN mer.entities :
            \A i \in DOMAIN mer.entities[k].attributes :
                LET attr == mer.entities[k].attributes[i]
                    field == schema[ModelStart(schema, k) + i]
                IN  /\ field.name = attr.name
                    /\ field.type.scalar = TableTargetType(TypeLower(Get(attr, "type", "string")))

(***************************************************************************)
(* SpecProject: the projection, by `prisma` and by to_prisma.main with and *)
(* without --no-ai, of a MER file with the entities User and Order, where  *)
(* User carries any subset of the standard audit fields and Order may      *)
(* carry the attribute userId, and with any list of at most                *)
(* MaxRelationships relationships of ProjectRelationships (repetitions     *)
(* included).  The enrichment ends in any outcome of Responses.            *)
(***************************************************************************)
code == <<"c","o","d","e">>
owner == <<"o","w","n","e","r">>
userId == <<"u","s","e","r","I","d">>
parentId == <<"p","a","r","e","n","t","I","d">>

AuditSubsets ==
    {SelectSeq(<<createdAt, updatedAt, deletedAt>>, LAMBDA n : n \in S) :
        S \in SUBSET AuditNames}

ProjectUsers ==
    {[name |-> User,
      attributes |-> <<IdPk, [name |-> code, type |-> "int", unique |-> TRUE]>>
                     \o [i \in DOMAIN au |-> [name |-> au[i], type |-> "datetime"]]] :
        au \in AuditSubsets}

ProjectOrders ==
    {[name |-> Order, attributes |-> <<IdPk>>],
     [name |-> Order,
      attributes |-> <<IdPk, [name |-> userId, type |-> "uuid", nullable |-> TRUE]>>]}

ProjectRelationships ==
    {[from |-> Order, to |-> User, type |-> "many-to-one",
      fk |-> [attribute |-> userId, ref |-> <<"U","s","e","r",".","i","d">>]],
     [from |-> Order, to |-> User, type |-> "many-to-one",
      fk |-> [attribute |-> owner, ref |-> <<"U","s","e","r",".","c","o","d","e">>]],
     [from |-> Order, to |-> User, type |-> "many-to-one"],
     [from |-> User, to |-> User, type |-> "one-to-many",
      fk |-> [attribute |-> parentId, ref |-> <<"U","s","e","r",".","i","d">>]],
     [from |-> User, to |-> Order]}

ProjectFiles ==
    {[entities |-> <<u, o>>, relationships |-> rels,
      enums |-> <<[name |-> "Status",
                   values |-> <<<<"a","c","t","i","v","e">>,
                                <<"i","n","-","p","r","o","g","r","e","s","s">>>>]>>] :
        u \in ProjectUsers, o \in ProjectOrders,
        rels \in SeqsUpTo(ProjectRelationships, MaxRelationships)}

Responses ==
    {[kind |-> "construct_error"], [kind |-> "call_error"], [kind |-> "none"],
     [kind |-> "text", text |-> <<BlankLine, ModelLine(User), CloseLine, BlankLine>>],
     [kind |-> "text",
      text |-> <<ProseLine, FenceLine("prisma"), ModelLine(User), CloseLine,
                 FenceLine(""), ProseLine>>],
     [kind |-> "text",
      text |-> <<FenceLine(""), BlankLine, ModelLine(Order), CloseLine, FenceLine("")>>],
     [kind |-> "text", text |-> <<FenceLine("prisma"), ModelLine(User), CloseLine>>]}

InitProject == InitPrisma(ProjectFiles) \/ InitToPrisma(ProjectFiles)

NextProject ==
    \/ ProjectStep(Responses)
    \/ WriteSchemaStep

SpecProject == InitProject /\ [][NextProject]_vars

(***************************************************************************)
(* C16.  In the rule-based projection, for every pair of entities A and B  *)
(* with at least one relationship from A to B, the model block of B holds  *)
(* exactly one reverse collection field of type A[], also when the         *)
(* relationship list holds the same relationship more than once.  Stated   *)
(* as claimed; the code violates it (SpecProject).                         *)
(***************************************************************************)
\* the number of fields of type t in the k-th model block of text
FieldsOfType(text, k, t) ==
    Cardinality({i \in DOMAIN BlockFields(text, k) : BlockFields(text, k)[i].type = t})

C16_OneReverseFieldPerPair ==
    RuleBased =>
        \A ka, kb \in DOMAIN mer.entities :
            (\E i \in DOMAIN mer.relationships :
                /\ mer.relationships[i].from = mer.entities[ka].name
                /\ mer.relationships[i].to = mer.entities[kb].name)
            => FieldsOfType(schema, kb, ModelType(mer.entities[ka].name, "[]")) = 1

(***************************************************************************)
(* C17.  In the rule-based projection every model block holds each         *)
(* standard audit field (createdAt, updatedAt, deletedAt) exactly once,    *)
(* whichever subset of the three the entity already carries among its      *)
(* attributes.  Stated as claimed; the code violates it (SpecProject).     *)
(***************************************************************************)
\* the number of fields called n in the k-th model block of text
FieldsNamed(text, k, n) ==
    Cardinality({i \in DOMAIN BlockFields(text, k) : BlockFields(text, k)[i].name = n})

C17_AuditFieldsExactlyOnce ==
    RuleBased =>
        \A k \in DOMAIN mer.entities :
            \A n \in AuditNames : FieldsNamed(schema, k, n) = 1

(***************************************************************************)
(* C18.  In the rule-based projection, for each outgoing relationship      *)
(* whose fk attribute is not among the entity's attributes, the model      *)
(* block holds a field named after fk.attribute whose type is the target   *)
(* type of the attribute fk.ref designates in the referenced entity.       *)
(* Stated as claimed; the code violates it (SpecProject).                  *)
(***************************************************************************)
\* the fields called n in the k-th model block of text
FieldsCalled(text, k, n) == SelectSeq(BlockFields(text, k), LAMBDA l : l.name = n)

C18_FkTypedAfterReferencedAttribute ==
    RuleBased =>
        \A k, kt \in DOMAIN mer.entities :
            \A i \in DOMAIN mer.relationships :
                LET rel == mer.relationships[i]
                    attrs == mer.entities[k].attributes
                    refd == mer.entities[kt].attributes
                IN  ( /\ rel.from = mer.entities[k].name
                      /\ rel.to = mer.entities[kt].name
                      /\ "fk" \in DOMAIN rel
                      /\ \A j \in DOMAIN attrs : attrs[j].name # rel.fk.attribute
                      /\ \E j \in DOMAIN refd : refd[j].name = AfterLastDot(rel.fk.ref) )
                    => LET fks == FieldsCalled(schema, k, rel.fk.attribute)
                           target == FieldsCalled(schema, kt, AfterLastDot(rel.fk.ref))
                       IN  /\ fks # <<>>
                           /\ \A j \in DOMAIN fks : fks[j].type = Scalar(target[1].type.scalar, "")

(***************************************************************************)
(* C19.  mer_to_prisma with enrichment enabled fails open: whenever the    *)
(* enrichment raises (at the construction of the client, in the completion *)
(* call, or in the handling of the response) the text returned is the      *)
(* rule-based base schema of the same MER, and no error of the enrichment  *)
(* reaches the caller: mer_to_prisma returns, and the only error a run can *)
(* end with afterwards is the FileNotFoundError of the caller's own        *)
(* os.makedirs for an output path without a directory part (SpecProject).  *)
(***************************************************************************)
C19_EnrichmentFailsOpen ==
    (cmd \in PrismaCmds /\ calls # <<>> /\ EnrichmentRaises(calls[Len(calls)].out)) =>
        /\ use_ai
        /\ schema = BaseSchema(mer)
        /\ outFile \in {<<>>, <<BaseSchema(mer)>>}
        /\ err = "" => pc \in {"write_schema", "done"}
        /\ err # "" =>
              /\ pc = "failed" /\ err = "FileNotFoundError"
              /\ Dirname(out_prisma) = <<>>
              /\ outFile = <<>>

\* the client could not be constructed, and the base schema of a MER with
\* relationships has been written
C19_Witness ==
    /\ cmd = "prisma" /\ pc = "done"
    /\ calls = <<[pass |-> "enhance", out |-> [kind |-> "construct_error"]]>>
    /\ Len(mer.relationships) = 2
    /\ outFile = <<BaseSchema(mer)>>
    /\ \E i \in DOMAIN schema : schema[i].line = "field"

(***************************************************************************)
(* C20.  The Projector never mutates the MER: the step that runs           *)
(* mer_to_prisma leaves the MER equal to its value before the call, so     *)
(* that the rule-based projection of the MER as it is after the call is    *)
(* the text the call returned (SpecProject).                               *)
(***************************************************************************)
C20_ProjectorLeavesMerUnchanged ==
    [][(cmd \in PrismaCmds /\ pc = "project") =>
          /\ mer' = mer
          /\ (pc' = "write_schema" /\ ~use_ai) => schema' = BaseSchema(mer')]_vars

\* a rule-based projection has returned for a MER with relationships whose
\* User entity carries no audit field, which the projection adds to its text
C20_Witness ==
    /\ RuleBased /\ pc = "write_schema"
    /\ Len(mer.relationships) = 2
    /\ \A j \in DOMAIN mer.entities[1].attributes :
          mer.entities[1].attributes[j].name \notin AuditNames
    /\ FieldsNamed(schema, 1, createdAt) = 1
    /\ schema = BaseSchema(mer)

(***************************************************************************)
(* C21.  The ContextPack is immutable during a pipeline run: no stage, and *)
(* in particular neither merge_parts (with resolve_cardinality over the    *)
(* document rules) nor unify_naming over the glossary, changes the         *)
(* glossary, the document rules (the sources list of each rule included)   *)
(* or the figma section of the loaded pack (Spec).                         *)
(***************************************************************************)
C21_ContextPackImmutable ==
    [][(cmd \in PipelineCmds) =>
          (/\ ctx'.glossary = ctx.glossary
           /\ ctx'.rules = ctx.rules
           /\ ctx'.figma = ctx.figma)]_vars

\* a run has ended in which a document rule with sources was applied to a
\* relationship and a glossary alias renamed an entity
C21_Witness ==
    /\ cmd = "mer" /\ pc = "done"
    /\ ctx = Context(UserGlossary, <<OrderUserRule>>)
    /\ \E i \in DOMAIN EntitiesReturned : EntitiesReturned[i].name = users
    /\ \A i \in DOMAIN mer.entities : mer.entities[i].name # users
    /\ mer.relationships # <<>>
    /\ mer.relationships[1].type = "many-to-one"
    /\ mer.relationships[1].sources = <<"figma:c1", "doc:x">>

(***************************************************************************)
(* C22.  The fallback result of the Attributes pass, returned when the     *)
(* completion is empty twice or cannot be parsed, has exactly the keys     *)
(* entities and open_questions: its entities are the entity list of the    *)
(* Entities pass result, and its open questions are exactly one entry,     *)
(* whose sources list holds one citation, which starts with "system:"      *)
(* (Spec).                                                                 *)
(***************************************************************************)
\* the Attributes pass has returned its fallback
AttributesFellBack == "notrun" \notin DOMAIN a /\ ~JsonLoads(LastOut("attributes"))

\* the citations of the model that start with "system:"
SystemCitations == {"system:llm_error", "system:json_error"}

C22_FallbackShape ==
    AttributesFellBack =>
        /\ DOMAIN a = {"entities", "open_questions"}
        /\ a.entities = Get(e, "entities", <<>>)
        /\ pc = "relationships" =>
              [i \in DOMAIN a.entities |-> heap[a.entities[i]]] = EntitiesReturned
        /\ Len(a.open_questions) = 1
        /\ Len(a.open_questions[1].sources) = 1
        /\ a.open_questions[1].sources[1] \in SystemCitations
        /\ IsEmptyOut(LastOut("attributes")) =>
              /\ Len(CallsOf("attributes")) = 2
              /\ IsEmptyOut(CallsOf("attributes")[1].out)

\* the completion was empty twice after an Entities pass that returned two
\* entities, and the fallback has been handed to the Relationships pass
C22_Witness ==
    /\ AttributesFellBack
    /\ pc = "relationships"
    /\ Len(CallsOf("attributes")) = 2
    /\ Len(a.entities) = 2
    /\ a.open_questions[1].sources = <<"system:llm_error">>

(***************************************************************************)
(* C23.  The Projector is applied only to a MER the Validator accepts: in  *)
(* every run of the `prisma` command, mer_to_prisma is not invoked on a    *)
(* MER in which some entity lacks a primary key.  Stated as claimed; the   *)
(* code violates it (SpecTypes).                                           *)
(***************************************************************************)
\* the `prisma` command has called mer_to_prisma
ProjectorInvoked == cmd = "prisma" /\ pc # "project"

C23_ProjectedOnlyIfAccepted ==
    ProjectorInvoked => ValidateMerBasic(mer)

(***************************************************************************)
(* C24.  In every `mer` run the stages execute in the fixed order Entities *)
(* pass, Attributes pass, Relationships pass, merge, naming normalization, *)
(* validation, write: every step of the run either aborts it or moves it   *)
(* to the next stage of that order; completions are requested only by the  *)
(* pass whose stage it is, the Entities pass first; the Attributes pass    *)
(* runs after the Entities pass has returned and receives its result; the  *)
(* Relationships pass runs after the Attributes pass has returned and      *)
(* receives its result, the partial model of the entities with their       *)
(* attributes; and the output file is written by the write stage only      *)
(* (Spec).                                                                 *)
(***************************************************************************)
MerStages ==
    <<"entities", "attributes", "relationships", "merge", "unify", "validate",
      "write", "done">>

C24_StagesInFixedOrder ==
    [][(cmd = "mer") =>
          LET new == SubSeq(calls', Len(calls) + 1, Len(calls'))
          IN  /\ \/ pc' = "failed"
                 \/ \E i \in 1..(Len(MerStages) - 1) :
                       pc = MerStages[i] /\ pc' = MerStages[i + 1]
              /\ SubSeq(calls', 1, Len(calls)) = calls
              /\ IF pc \in Passes
                 THEN new # <<>> /\ \A i \in DOMAIN new : new[i].pass = pc
                 ELSE new = <<>>
              /\ pc = "entities" => calls = <<>>
              /\ pc = "attributes" =>
                    /\ "notrun" \notin DOMAIN e
                    /\ e = ParsedResult(LastOut("entities").body, <<>>)
                    /\ \A i \in DOMAIN new : new[i].base_mer = e
              /\ pc = "relationships" =>
                    /\ "notrun" \notin DOMAIN a
                    /\ \A i \in DOMAIN new : new[i].base_mer = a
              /\ outFile' # outFile => pc = "write"]_vars

\* a run has gone through every stage, with a retry of the Attributes pass,
\* and written the MER
C24_Witness ==
    /\ cmd = "mer" /\ pc = "done"
    /\ Len(calls) = 4
    /\ calls[3].base_mer = e
    /\ calls[4].base_mer = a
    /\ Len(a.entities) = 2
    /\ outFile = <<mer>>

(***************************************************************************)
(* C25.  Reverse collection fields are synthesized only from other         *)
(* entities: in the rule-based projection, the model block of an entity    *)
(* that has a relationship pointing at itself (from = to) holds no reverse *)
(* collection field of the entity's own type.  Stated as claimed; the code *)
(* violates it (SpecProject).                                              *)
(***************************************************************************)
C25_NoReverseFieldFromSelf ==
    RuleBased =>
        \A k \in DOMAIN mer.entities :
            (\E i \in DOMAIN mer.relationships :
                /\ mer.relationships[i].from = mer.entities[k].name
                /\ mer.relationships[i].to = mer.entities[k].name)
            => FieldsOfType(schema, k, ModelType(mer.entities[k].name, "[]")) = 0

(***************************************************************************)
(* C28.  In the rule-based projection of a MER whose entities each have    *)
(* unique attribute names, no model block holds two fields with the same   *)
(* name, also when an entity has two relationships to the same target      *)
(* entity, two relationships that share one fk attribute, or a reverse     *)
(* field named as one of its relation fields.  Stated as claimed; the code *)
(* violates it (SpecProject).                                              *)
(***************************************************************************)
\* the attribute names of every entity of m are pairwise distinct
UniqueAttributeNames(m) ==
    \A k \in DOMAIN m.entities :
        \A i, j \in DOMAIN m.entities[k].attributes :
            m.entities[k].attributes[i].name = m.entities[k].attributes[j].name => i = j

C28_FieldNamesUniquePerBlock ==
    (RuleBased /\ UniqueAttributeNames(mer)) =>
        \A k \in DOMAIN mer.entities :
            \A i, j \in DOMAIN BlockFields(schema, k) :
                BlockFields(schema, k)[i].name = BlockFields(schema, k)[j].name => i = j

(***************************************************************************)
(* C27.  unify_naming is total: for every MER whose entity names,          *)
(* attribute names, relationship endpoints and fk attribute names are      *)
(* strings, the empty string and strings without an alphanumeric character *)
(* included, it returns a MER and does not raise, so that no run is        *)
(* aborted in the naming stage.  Stated as claimed; the code violates it   *)
(* (SpecNaming).                                                           *)
(***************************************************************************)
C27_UnifyNamingTotal ==
    /\ pc = "unify" => ~UnifyNamingRaises(mer)
    /\ pc = "failed" => err # "IndexError"

(***************************************************************************)
(* C29.  unify_naming preserves referential consistency: when it returns,  *)
(* every relationship endpoint whose raw name was the raw name of an       *)
(* entity of the MER is the normalized name of that entity, for every      *)
(* glossary (SpecNaming).                                                  *)
(***************************************************************************)
C29_EndpointsFollowEntities ==
    [][(cmd = "mer" /\ pc = "unify" /\ pc' = "validate") =>
          \A i \in DOMAIN mer.relationships : \A k \in DOMAIN mer.entities :
              /\ mer.relationships[i].from = mer.entities[k].name
                    => mer'.relationships[i].from = mer'.entities[k].name
              /\ mer.relationships[i].to = mer.entities[k].name
                    => mer'.relationships[i].to = mer'.entities[k].name]_vars

\* unify_naming has returned a MER whose relationship endpoints and entity
\* were renamed to the term of the glossary entry that lists their raw name
\* as an alias, a term that differs from the normalized raw name
C29_Witness ==
    /\ Normalized
    /\ mer.relationships # <<>>
    /\ LET raw == RelationshipsReturned[1].from
       IN  /\ raw = EntitiesReturned[1].name
           /\ AliasMatches(raw, ctx.glossary) # {}
           /\ mer.relationships[1].from # NormalizeEntityName(raw)
           /\ mer.relationships[1].from = mer.entities[1].name
           /\ mer.relationships[1].to = mer.entities[1].name

(***************************************************************************)
(* batch_process.py.  main loads the configuration and calls               *)
(* process_project for each project in turn; process_project generates the *)
(* context pack of the project from its Figma files (an external           *)
(* extraction that returns or raises) and calls run_full_pipeline, whose   *)
(* stages are the actions above with cmd = "batch".  A configuration file  *)
(* that cannot be opened or parsed is [unloadable |-> TRUE]; otherwise it  *)
(* is the JSON object read, and a project is the JSON object of its entry. *)
(***************************************************************************)
\* the pack generate_context_pack_from_multiple_figma_files writes for the
\* files file_ids (lines 73-106 of generate_from_figma.py): the extraction
\* of a file returns no entity card and no connector
\* (simple_figma_test.py lines 306-314) and the source "figma:file:<id>";
\* empty glossary, rules and enums
GeneratedPack(file_ids) ==
    [figma |-> [entityCards |-> <<>>,
                connectors |-> <<>>,
                sources |-> [i \in DOMAIN file_ids |-> "figma:file:" \o file_ids[i]]],
     glossary |-> <<>>, rules |-> <<>>, enums |-> <<>>]

\* config = load_projects_config(config_path); projects = config.get(...);
\* an exception ends main with sys.exit(1) (lines 53-60, 75-77)
BatchLoad ==
    /\ cmd = "batch" /\ pc = "batch_load"
    /\ IF "unloadable" \in DOMAIN batch.config
       THEN /\ batch' = [batch EXCEPT !.exit = 1]
            /\ pc' = "exited"
       ELSE /\ batch' = [batch EXCEPT !.projects = Get(batch.config, "projects", <<>>),
                                      !.successful = 0, !.failed = 0]
            /\ pc' = "batch_next"
    /\ UNCHANGED <<out_prisma, cmd, ctx, heap, e, a, r, mer, calls, err, outFile, use_ai, schema, fs>>

\* one iteration of the loop of main up to the call of run_full_pipeline:
\* process_project(project), lines 19-36.  The three prints of lines 21-23
\* are outside the try of process_project: their KeyError reaches the
\* except of main, which exits with 1.  Everything from line 25 on is inside
\* it: an exception of the extraction, or the KeyError of a missing
\* context_output or mer_output, makes process_project return False.
ProcessProject(Extractions) ==
    /\ cmd = "batch" /\ pc = "batch_next"
    /\ batch.i <= Len(batch.projects)
    /\ LET project == batch.projects[batch.i]
           called == [batch EXCEPT !.processed = Append(@, batch.i)]
       IN  IF {"name", "description", "figma_files"} \ DOMAIN project # {}
           THEN /\ batch' = [called EXCEPT !.exit = 1]
                /\ pc' = "exited"
                /\ UNCHANGED <<ctx, heap, e, a, r, mer, calls, err>>
           ELSE \E extraction \in Extractions :
                   IF \/ extraction = "raises"
                      \/ {"context_output", "mer_output"} \ DOMAIN project # {}
                   THEN /\ batch' = [called EXCEPT !.failed = @ + 1, !.i = @ + 1]
                        /\ pc' = "batch_next"
                        /\ UNCHANGED <<ctx, heap, e, a, r, mer, calls, err>>
                   ELSE /\ batch' = called
                        /\ pc' = "entities"
                        /\ ctx' = GeneratedPack(project.figma_files)
                        /\ heap' = <<>>
                        /\ e' = NotRun /\ a' = NotRun /\ r' = NotRun /\ mer' = NotRun
                        /\ calls' = <<>>
                        /\ err' = ""
    /\ UNCHANGED <<out_prisma, cmd, outFile, use_ai, schema, fs>>

\* run_full_pipeline has returned (True, line 39) or raised (the except of
\* line 41, False), and main counts the project (lines 63-66)
ProjectReturn ==
    /\ cmd = "batch" /\ pc \in {"done", "failed"}
    /\ IF pc = "done"
       THEN batch' = [batch EXCEPT !.successful = @ + 1, !.i = @ + 1]
       ELSE batch' = [batch EXCEPT !.failed = @ + 1, !.i = @ + 1]
    /\ pc' = "batch_next"
    /\ err' = ""
    /\ UNCHANGED <<out_prisma, cmd, ctx, heap, e, a, r, mer, calls, outFile, use_ai, schema, fs>>

\* the end of the loop: `if failed > 0: sys.exit(1)` (lines 68-73)
BatchFinish ==
    /\ cmd = "batch" /\ pc = "batch_next"
    /\ batch.i > Len(batch.projects)
    /\ batch' = [batch EXCEPT !.exit = IF batch.failed > 0 THEN 1 ELSE 0]
    /\ pc' = "exited"
    /\ UNCHANGED <<out_prisma, cmd, ctx, heap, e, a, r, mer, calls, err, outFile, use_ai, schema, fs>>

\* the state of batch_process.main at line 53
InitBatch(Configs) ==
    /\ cmd = "batch"
    /\ pc = "batch_load"
    /\ ctx = NotRun
    /\ heap = <<>>
    /\ e = NotRun /\ a = NotRun /\ r = NotRun /\ mer = NotRun
    /\ calls = <<>>
    /\ err = ""
    /\ outFile = <<>>
    /\ use_ai = FALSE /\ schema = <<>>
    /\ batch \in {[config |-> c, projects |-> <<>>, i |-> 1, successful |-> 0,
                    failed |-> 0, processed |-> <<>>, exit |-> 0] : c \in Configs}
    /\ fs = NotRun
    /\ out_prisma = <<>>

(***************************************************************************)
(* SpecBatch: batch_process.main on an unloadable configuration, on one    *)
(* without the key projects, and on every list of at most MaxProjects      *)
(* projects of ProjectPool: a complete entry, one without mer_output and   *)
(* one without description.  The extraction returns or raises; the         *)
(* completions make run_full_pipeline return, fail in a pass, or fail in   *)
(* the validator.                                                          *)
(***************************************************************************)
ProjectPool ==
    {[name |-> "shop", description |-> "web shop", figma_files |-> <<"f1", "f2">>,
      context_output |-> "context/shop.json", mer_output |-> "schema/shop.json"],
     [name |-> "crm", description |-> "crm", figma_files |-> <<"f3">>,
      context_output |-> "context/crm.json"],
     [name |-> "blog", figma_files |-> <<"f4">>,
      context_output |-> "context/blog.json", mer_output |-> "schema/blog.json"]}

BatchConfigs ==
    {[unloadable |-> TRUE], [version |-> "1"]}
    \cup {[projects |-> ps] : ps \in SeqsUpTo(ProjectPool, MaxProjects)}

Extractions == {"returns", "raises"}

InitBatchConfigs == InitBatch(BatchConfigs)

NextBatch ==
    \/ BatchLoad
    \/ ProcessProject(Extractions)
    \/ ProjectReturn
    \/ BatchFinish
    \/ RunEntities({JsonOut(UserBody), JsonOut(StubBody), GarbageOut})
    \/ RunAttributes({JsonOut(UserBody), EmptyOut})
    \/ RunRelationships({JsonOut(StubBody)})
    \/ MergeStep
    \/ UnifyStep
    \/ ValidateStep
    \/ WriteStep

SpecBatch == InitBatchConfigs /\ [][NextBatch]_vars

(***************************************************************************)
(* C26.  Batch mode processes the configured projects one at a time in     *)
(* configuration order, each exactly once; a failure of one project does   *)
(* not prevent the later projects from being processed; at the end         *)
(* successful + failed is the number of projects, and the process exits    *)
(* non-zero iff at least one project failed or the configuration could not *)
(* be loaded.  Stated as claimed; the code violates it (SpecBatch).        *)
(***************************************************************************)
ConfiguredProjects == Get(batch.config, "projects", <<>>)

C26_BatchProcessesEveryProject ==
    (cmd = "batch" /\ pc = "exited") =>
        IF "unloadable" \in DOMAIN batch.config
        THEN batch.exit # 0 /\ batch.processed = <<>>
        ELSE /\ batch.processed = [i \in DOMAIN ConfiguredProjects |-> i]
             /\ batch.successful + batch.failed = Len(ConfiguredProjects)
             /\ batch.exit # 0 <=> batch.failed > 0

(***************************************************************************)
(* full_pipeline.py: main.  The three confirmations, step 1 (the           *)
(* subprocess ai_to_schema.py, which writes the context pack and the       *)
(* initial MER schema/mer.json), step 2 (the interactive refinement, run   *)
(* in-process, which writes the refined MER schema/mer2.json) and step 3   *)
(* (the subprocess projectors/prisma/to_prisma.py, modelled by ProjectStep *)
(* and WriteSchemaStep).  Both MER files may be left over from an earlier  *)
(* run.                                                                    *)
(***************************************************************************)
\* get_user_confirmation at lines 120, 151 and 200: on "no" main returns
ConfirmStep ==
    /\ cmd = "full_pipeline.main"
    /\ pc \in {"confirm_start", "confirm_refine", "confirm_prisma"}
    /\ \E yes \in BOOLEAN :
          pc' = IF ~yes THEN "returned"
                ELSE CASE pc = "confirm_start" -> "extract"
                       [] pc = "confirm_refine" -> "refine"
                       [] OTHER -> "prisma_step"
    /\ UNCHANGED <<out_prisma, cmd, ctx, heap, e, a, r, mer, calls, err, outFile, use_ai, schema,
                   batch, fs>>

\* step 1, lines 131-149.  res.ok: the subprocess exited with status 0;
\* res.context: the context pack exists afterwards; res.mer: <<m>> if the
\* subprocess wrote the MER m to schema/mer.json, <<>> if it wrote nothing
ExtractStep(Results) ==
    /\ cmd = "full_pipeline.main" /\ pc = "extract"
    /\ \E res \in Results :
          LET initial == IF res.mer # <<>> THEN res.mer ELSE fs.initial_mer
          IN  /\ fs' = [fs EXCEPT !.initial_mer = initial]
              /\ pc' = IF res.ok /\ res.context /\ initial # <<>>
                        THEN "confirm_refine" ELSE "returned"
    /\ UNCHANGED <<out_prisma, cmd, ctx, heap, e, a, r, mer, calls, err, outFile, use_ai, schema,
                   batch>>

\* step 2, lines 156-198.  The refinement ends in one of
\*   [kind |-> "wrote", mer |-> m]  save_mer_schema wrote m, main returned
\*   [kind |-> "returned"]          main returned without writing
\*   [kind |-> "raised"]            an Exception left refinement_main
\*   [kind |-> "interrupted"]       KeyboardInterrupt left refinement_main
\* The two except clauses copy initial_mer over refined_mer; the check of
\* line 191 copies it when refined_mer does not exist.
RefineStep(Outcomes) ==
    /\ cmd = "full_pipeline.main" /\ pc = "refine"
    /\ \E o \in Outcomes :
          LET after == CASE o.kind = "wrote" -> <<o.mer>>
                         [] o.kind = "returned" -> fs.refined_mer
                         [] OTHER -> fs.initial_mer
              checked == IF after = <<>> THEN fs.initial_mer ELSE after
          IN  fs' = [fs EXCEPT !.refined_mer = checked, !.refinement = o.kind]
    /\ pc' = "confirm_prisma"
    /\ UNCHANGED <<out_prisma, cmd, ctx, heap, e, a, r, mer, calls, err, outFile, use_ai, schema,
                   batch>>

\* step 3, line 207: the subprocess to_prisma.py starts.  Its import of
\* llm.openai_client constructs a client at module level (to_prisma.py line
\* 14, openai_client.py line 78); if that raises, the subprocess ends
\* before to_prisma.main.  Otherwise to_prisma.main does not read its
\* arguments: it loads schema/mer.json (lines 414-424), and use_ai is True
\* as --no-ai is not passed
StartPrismaStep ==
    /\ cmd = "full_pipeline.main" /\ pc = "prisma_step"
    /\ \E imported \in BOOLEAN :
          IF ~imported
          THEN Fail("OpenAIError") /\ UNCHANGED <<mer, use_ai>>
          ELSE /\ use_ai' = TRUE
               /\ IF fs.initial_mer = <<>>
                  THEN Fail("SystemExit") /\ mer' = mer
                  ELSE /\ mer' = fs.initial_mer[1]
                       /\ pc' = "project"
                       /\ err' = err
    /\ UNCHANGED <<out_prisma, cmd, ctx, heap, e, a, r, calls, outFile, schema, batch, fs>>

\* the subprocess has ended; lines 207-248 print and return
FinishStep ==
    /\ cmd = "full_pipeline.main" /\ pc \in {"done", "failed"}
    /\ pc' = "returned"
    /\ UNCHANGED <<out_prisma, cmd, ctx, heap, e, a, r, mer, calls, err, outFile, use_ai, schema,
                   batch, fs>>

\* the state of full_pipeline.main at line 120
InitFullPipelineMain(Mers) ==
    /\ cmd = "full_pipeline.main"
    /\ pc = "confirm_start"
    /\ ctx = NotRun
    /\ heap = <<>>
    /\ e = NotRun /\ a = NotRun /\ r = NotRun /\ mer = NotRun
    /\ calls = <<>>
    /\ err = ""
    /\ outFile = <<>>
    /\ use_ai = FALSE /\ schema = <<>>
    /\ batch = NotRun
    /\ fs \in {[initial_mer |-> i, refined_mer |-> f, refinement |-> "not_run"] :
                  i \in {<<>>} \cup {<<m>> : m \in Mers},
                  f \in {<<>>} \cup {<<m>> : m \in Mers}}
    /\ out_prisma = <<"schema", "schema.prisma">>

(***************************************************************************)
(* SpecFullPipeline: full_pipeline.main with each MER file absent or left  *)
(* over with one of the MERs of MainMers, every answer to the              *)
(* confirmations, every outcome of the two subprocesses and of the         *)
(* refinement.                                                             *)
(***************************************************************************)
MainMers ==
    {[entities |-> <<PkEntity>>, relationships |-> <<>>],
     [entities |-> <<PkEntity, [name |-> Order, attributes |-> <<IdPk>>]>>,
      relationships |-> <<>>]}

ExtractResults ==
    {[ok |-> o, context |-> c, mer |-> w] :
        o \in BOOLEAN, c \in BOOLEAN, w \in {<<>>} \cup {<<m>> : m \in MainMers}}

RefineOutcomes ==
    {[kind |-> "wrote", mer |-> m] : m \in MainMers}
    \cup {[kind |-> "returned"], [kind |-> "raised"], [kind |-> "interrupted"]}

InitMain == InitFullPipelineMain(MainMers)

NextFullPipeline ==
    \/ ConfirmStep
    \/ ExtractStep(ExtractResults)
    \/ RefineStep(RefineOutcomes)
    \/ StartPrismaStep
    \/ ProjectStep(Responses)
    \/ WriteSchemaStep
    \/ FinishStep

SpecFullPipeline == InitMain /\ [][NextFullPipeline]_vars

(***************************************************************************)
(* C30.  In full_pipeline.main the Prisma generation step is started only  *)
(* when the refined MER file exists; and whenever the interactive          *)
(* refinement raises an error, is interrupted, or returns without writing  *)
(* its output, the refined MER file is a copy of the initial MER when the  *)
(* pipeline proceeds.  Stated as claimed; the code violates it             *)
(* (SpecFullPipeline).                                                     *)
(***************************************************************************)
C30_RefinedMerIsCopyOfInitial ==
    cmd = "full_pipeline.main" =>
        /\ pc \in {"prisma_step", "project", "write_schema", "done", "failed"}
              => fs.refined_mer # <<>>
        /\ fs.refinement \in {"raised", "interrupted", "returned"}
              => fs.refined_mer = fs.initial_mer

====
